---- MODULE Spec2Model ----
(***************************************************************************)
(* A model of the WebChat backend's real-time conversation engine:         *)
(*   - ConnectionManager (app/services/websocket.py): the registry of live *)
(*     websockets per user and the fan-out loops over it;                  *)
(*   - websocket_endpoint (app/api/endpoints/chats.py): one session per    *)
(*     websocket;                                                          *)
(*   - the chat operations (create_chat, send_message, delete_message,     *)
(*     add_reaction, block_user) as request handlers that interleave at    *)
(*     their await points.                                                 *)
(*                                                                         *)
(* Every handler is an asyncio coroutine: it runs atomically from one      *)
(* await to the next, so an action of the model is "resume after the       *)
(* pending await and run up to the next await".  Each request has its own  *)
(* database session; what it wrote is visible to the others at commit.     *)
(***************************************************************************)
EXTENDS Integers, Sequences, FiniteSets, TLC

\* ------------------------------------------------------------------ bounds
\* Websockets 1..NumSockets; socket w belongs to user UserOf(w).
NumSockets == 3
\* Request handlers 1..NumRequests; each serves one request.
NumRequests == 2
\* Conversations created in one run.
MaxConversations == 2
\* Message rows in one run (ids 1..MaxMessages).
MaxMessages == 3
\* Reaction rows inserted in one run (ids 1..MaxReactionRows).
MaxReactionRows == 3

Users == {"u1", "u2", "u3"}
Sockets == 1..NumSockets
Requests == 1..NumRequests

\* The user a websocket authenticated as: sockets alternate between u1 and u2,
\* so u1 holds several handles and u2 observes them.
UserOf(w) == IF w % 2 = 1 THEN "u1" ELSE "u2"

NoUser == "none"
\* A deleted slot of the dict's entry table (CPython leaves a dummy behind).
Dummy == "<dummy>"

VARIABLES
    active_connections, \* ConnectionManager.active_connections
    session,            \* per websocket: position of websocket_endpoint
    inbox,              \* per websocket: the events send_json delivered to it
    db,                 \* committed rows of the database
    req,                \* per request handler: operation, position, locals
    handed              \* history: per user, the events handed to the router

vars == <<active_connections, session, inbox, db, req, handed>>

\* ------------------------------------------------------- sequence helpers
Range(s) == {s[i] : i \in 1..Len(s)}

\* list.remove(x): removes the first occurrence.
RECURSIVE ListRemove(_, _)
ListRemove(s, x) ==
    IF s = <<>> THEN <<>>
    ELSE IF Head(s) = x THEN Tail(s)
    ELSE <<Head(s)>> \o ListRemove(Tail(s), x)

\* ------------------------------------------------- active_connections dict
\* Dict[str, List[WebSocket]].  entries: the dict's entry table in insertion
\* order, a deleted key leaving a Dummy; lists: the list object of each
\* present key; gen: how many list objects of the key were dropped so far
\* (an iterator that holds a dropped list object sees it empty for ever).
EmptyRegistry ==
    [entries |-> <<>>,
     lists   |-> [u \in Users |-> <<>>],
     gen     |-> [u \in Users |-> 0]]

\* user_id_str in self.active_connections
HasKey(ac, u) == u \in Range(ac.entries)

\* len(self.active_connections)
DictSize(ac) == Cardinality({i \in 1..Len(ac.entries) : ac.entries[i] # Dummy})

\* connect(), lines 17-19: create the key if absent, append the websocket.
Register(ac, u, w) ==
    [ac EXCEPT !.entries = IF HasKey(ac, u) THEN @ ELSE Append(@, u),
               !.lists[u] = Append(@, w)]

\* Unregister without the "del" of line 37: an emptied key stays in the dict.
UnregisterKeepsEmptyKey(ac, u, w) ==
    IF ~HasKey(ac, u) THEN ac
    ELSE [ac EXCEPT !.lists[u] = IF w \in Range(@) THEN ListRemove(@, w) ELSE @]

\* disconnect_async(), lines 33-37, and disconnect(), lines 25-29: remove
\* the websocket, drop an empty key.
Unregister(ac, u, w) ==
    IF ~HasKey(ac, u) THEN ac
    ELSE LET l == IF w \in Range(ac.lists[u])
                  THEN ListRemove(ac.lists[u], w) ELSE ac.lists[u]
         IN IF l = <<>>
            THEN [ac EXCEPT !.entries = [i \in 1..Len(@) |->
                                            IF @[i] = u THEN Dummy ELSE @[i]],
                            !.lists[u] = <<>>,
                            !.gen[u] = @ + 1]
            ELSE [ac EXCEPT !.lists[u] = l]

\* disconnect_async(), line 36: the key was dropped, so offline is broadcast.
DroppedKey(ac, u, w) == HasKey(ac, u) /\ ~HasKey(Unregister(ac, u, w), u)

\* ------------------------------------------------------------- the events
\* broadcast_user_status(), lines 55-59.  transition is history: whether the
\* connect() or disconnect_async() that built the event changed the user's
\* presence (first handle registered, last handle removed).
StatusEvent(u, isOnline, transition) ==
    [type |-> "user_status_change", userId |-> u, isOnline |-> isOnline,
     transition |-> transition]

\* send_json(ev) on websocket w, lines 45 / 67 / 92: it delivers while the
\* transport is open and raises once it is closed; the caller swallows the
\* exception ("except Exception: continue"), so a failed send leaves nothing.
SendOk(w) == session[w].open

\* "await connection.send_json(message)", websocket.py lines 45, 67, 92, has
\* no timeout: on a websocket whose client has stopped reading (marked by a
\* field "stalled" of its session) it never returns.
Stalls(w) == "stalled" \in DOMAIN session[w]

\* What the websockets saw after one send_json(ev) on w.
Deliver(box, w, ev) ==
    IF SendOk(w) THEN [box EXCEPT ![w] = Append(@, ev)] ELSE box

\* --------------------------------------- broadcast_user_status: the loops
\* The state of the two nested for-loops between two awaits: the dict items
\* iterator (used: dict size when created, pos: next entry slot, rem: items
\* it still expects) and the list iterator of the inner loop (cur: the user
\* whose list object it holds, gen: which list object, li: elements passed).
NoIter == [used |-> 0, pos |-> 1, rem |-> 0, cur |-> NoUser, gen |-> 0, li |-> 0]

\* iter(self.active_connections.items()), line 62.
NewDictIter(ac) ==
    [used |-> DictSize(ac), pos |-> 1, rem |-> DictSize(ac),
     cur |-> NoUser, gen |-> 0, li |-> 0]

\* The list object an iterator holds, as it is now: a dropped list is empty.
HeldList(ac, u, g) == IF ac.gen[u] = g THEN ac.lists[u] ELSE <<>>

\* Lines 62-69, from one await to the next: run the loops until the next
\* send_json ("send", to the websocket `to`), the end of the outer loop
\* ("done"), or the dict iterator's RuntimeError ("raise": the dict changed
\* size, or holds more keys than the iterator expected).
RECURSIVE BroadcastNext(_, _, _)
BroadcastNext(ac, self, it) ==
    IF it.cur # NoUser
    THEN LET l == HeldList(ac, it.cur, it.gen)
         IN IF it.li < Len(l)
            THEN [kind |-> "send", to |-> l[it.li + 1],
                  it |-> [it EXCEPT !.li = @ + 1]]
            ELSE BroadcastNext(ac, self, [it EXCEPT !.cur = NoUser])
    ELSE IF it.used # DictSize(ac)
    THEN [kind |-> "raise", to |-> 0, it |-> NoIter]
    ELSE LET live == {i \in it.pos..Len(ac.entries) : ac.entries[i] # Dummy}
         IN IF live = {}
            THEN [kind |-> "done", to |-> 0, it |-> NoIter]
            ELSE IF it.rem = 0
            THEN [kind |-> "raise", to |-> 0, it |-> NoIter]
            ELSE LET i   == CHOOSE j \in live : \A k \in live : j <= k
                     uid == ac.entries[i]
                     it2 == [it EXCEPT !.pos = i + 1, !.rem = @ - 1]
                 IN IF uid = self
                    THEN BroadcastNext(ac, self, it2)
                    ELSE BroadcastNext(ac, self,
                             [it2 EXCEPT !.cur = uid, !.gen = ac.gen[uid],
                                         !.li = 0])

\* ------------------------------------------------------ websocket_endpoint
\* pc of a session:
\*   "accepting"         in connect(), awaiting websocket.accept()
\*   "connect_bcast"     in connect(), inside broadcast_user_status(True)
\*   "receiving"         in the receive loop
\*   "disconnect_bcast"  in disconnect_async(), inside broadcast_user_status(False)
\*   "closed"            the endpoint returned after disconnect_async()
\*   "accept_failed"     accept() raised: the endpoint ended, nothing registered
\*   "crashed"           an exception escaped connect() or the receive loop
\*   "disconnect_failed" an exception escaped disconnect_async()
\* open: the transport of the websocket is open (the client is there and the
\* server has not closed it).
\* removed: a call of disconnect() took the handle out of the registry.
NewSession ==
    [pc |-> "accepting", it |-> NoIter, transition |-> FALSE, open |-> TRUE,
     removed |-> FALSE]

Ended(w) ==
    session[w].pc \in {"closed", "accept_failed", "crashed", "disconnect_failed",
                       "rejected"}

\* One stretch of broadcast_user_status for session w between two awaits,
\* over the registry ac, with loop state it.  The RuntimeError of the dict
\* iterator is raised outside the try of line 66, so it escapes connect() or
\* disconnect_async() and ends the endpoint; the server then closes the
\* transport.
BroadcastRun(w, ac, it, isOnline, transition) ==
    LET r == BroadcastNext(ac, UserOf(w), it)
    IN CASE r.kind = "send" ->
              /\ inbox' = Deliver(inbox, r.to,
                              StatusEvent(UserOf(w), isOnline, transition))
              /\ session' = [session EXCEPT ![w] =
                    [@ EXCEPT !.pc = IF isOnline THEN "connect_bcast"
                                     ELSE "disconnect_bcast",
                              !.it = r.it, !.transition = transition]]
         [] r.kind = "done" ->
              /\ inbox' = inbox
              /\ session' = [session EXCEPT ![w] =
                    [@ EXCEPT !.pc = IF isOnline THEN "receiving" ELSE "closed",
                              !.it = NoIter, !.transition = transition]]
         [] r.kind = "raise" ->
              /\ inbox' = inbox
              /\ session' = [session EXCEPT ![w] =
                    [@ EXCEPT !.pc = IF isOnline THEN "crashed"
                                     ELSE "disconnect_failed",
                              !.it = NoIter, !.transition = transition,
                              !.open = FALSE]]

\* ------------------------------------------- websocket_endpoint: the token
\* The token query parameter of chats.py line 27: absent (or empty), not a
\* JWT of this server, a JWT of this server that has expired, or a JWT of
\* this server in its lifetime; sub: the username the JWT was issued to.
\* The tokens a client of websocket w presents: those issued to its user, and
\* one issued to a user whose row is gone.
TokensOf(w) ==
    {[form |-> "absent", sub |-> NoUser],
     [form |-> "malformed", sub |-> NoUser],
     [form |-> "expired", sub |-> UserOf(w)],
     [form |-> "signed", sub |-> UserOf(w)],
     [form |-> "signed", sub |-> "nobody"]}

\* jwt.decode without the check of the exp claim.
DecodeNoExpiry(token) ==
    IF token.form \in {"signed", "expired"} THEN token.sub ELSE "JWTError"

\* chats.py lines 35-38: jwt.decode and TokenPayload give the subject of the
\* token, or raise (JWTError covers a bad signature and ExpiredSignatureError).
Decode(token) ==
    IF token.form = "signed" THEN token.sub ELSE "JWTError"

\* websocket.close(code=1008) and return, lines 31-32, 40-41, 52-53.
Rejected(token) ==
    [pc |-> "rejected", it |-> NoIter, transition |-> FALSE, open |-> FALSE,
     removed |-> FALSE, token |-> token, code |-> 1008]

\* websocket_endpoint, lines 30-49: the token is tested and decoded, and the
\* user of its subject is selected (await).
WsAuthenticate(w, token) ==
    /\ session[w].pc = "handshake"
    /\ session' = [session EXCEPT ![w] =
          IF token.form = "absent" \/ Decode(token) = "JWTError"
          THEN Rejected(token)
          ELSE [pc |-> "lookup", it |-> NoIter, transition |-> FALSE,
                open |-> session[w].open, removed |-> FALSE,
                token |-> token, code |-> 0]]
    /\ UNCHANGED <<active_connections, inbox, db, req, handed>>

\* websocket_endpoint, lines 50-56: the select returned; without a user row
\* the websocket is closed, with one the endpoint calls connect(), which
\* awaits accept().
WsLookup(w) ==
    /\ session[w].pc = "lookup"
    /\ session' = [session EXCEPT ![w] =
          IF Decode(session[w].token) \notin Users
          THEN Rejected(session[w].token)
          ELSE [NewSession EXCEPT !.open = session[w].open]]
    /\ UNCHANGED <<active_connections, inbox, db, req, handed>>

\* connect(), lines 15-21: accept() returned; register and start the broadcast.
WsConnect(w) ==
    /\ session[w].pc = "accepting"
    /\ session[w].open
    /\ LET u   == UserOf(w)
           ac1 == Register(active_connections, u, w)
           tr  == ~HasKey(active_connections, u)
       IN /\ active_connections' = ac1
          /\ BroadcastRun(w, ac1, NewDictIter(ac1), TRUE, tr)
    /\ UNCHANGED <<db, req, handed>>

\* connect(), line 15: the client went away before accept(), which raises;
\* nothing was registered.
WsAcceptFails(w) ==
    /\ session[w].pc = "accepting"
    /\ ~session[w].open
    /\ session' = [session EXCEPT ![w].pc = "accept_failed"]
    /\ UNCHANGED <<active_connections, inbox, db, req, handed>>

\* broadcast_user_status resumes after a send_json (lines 62-69).
WsBroadcastStep(w) ==
    /\ session[w].pc \in {"connect_bcast", "disconnect_bcast"}
    /\ BroadcastRun(w, active_connections, session[w].it,
                    session[w].pc = "connect_bcast", session[w].transition)
    /\ UNCHANGED <<active_connections, db, req, handed>>

\* websocket_endpoint, lines 59-60: the client is gone, receive_text raises
\* WebSocketDisconnect; disconnect_async() unregisters and, if the key was
\* dropped, broadcasts.
WsDisconnect(w) ==
    /\ session[w].pc = "receiving"
    /\ ~session[w].open
    /\ LET u   == UserOf(w)
           ac1 == Unregister(active_connections, u, w)
       IN /\ active_connections' = ac1
          /\ IF DroppedKey(active_connections, u, w)
             THEN BroadcastRun(w, ac1, NewDictIter(ac1), FALSE, TRUE)
             ELSE /\ inbox' = inbox
                  /\ session' = [session EXCEPT ![w] =
                        [@ EXCEPT !.pc = "closed", !.it = NoIter,
                                  !.transition = FALSE]]
    /\ UNCHANGED <<db, req, handed>>

\* websocket_endpoint, lines 56-59: receive_text raised something that is not
\* a WebSocketDisconnect (the client sent a binary frame, which has no
\* "text"); only WebSocketDisconnect is caught, so the endpoint ends without
\* disconnect_async() and the server closes the transport.
WsReceiveError(w) ==
    /\ session[w].pc = "receiving"
    /\ session[w].open
    /\ session' = [session EXCEPT ![w].pc = "crashed", ![w].open = FALSE]
    /\ UNCHANGED <<active_connections, inbox, db, req, handed>>

\* ConnectionManager.disconnect(websocket, user_id), lines 23-29, the
\* synchronous variant.  It has no caller in the repository and no
\* precondition: it may be called for any handle and any user id, wherever
\* the endpoint of the handle is (before accept() returned, inside a
\* broadcast, in the receive loop, ended).  A handle found in the list of the
\* user is removed and an emptied key is dropped; nothing is broadcast and the
\* endpoint goes on from where it is.  A call that finds nothing to remove
\* and no empty list changes nothing.
Disconnect(w, u) ==
    /\ active_connections' = Unregister(active_connections, u, w)
    /\ session' = [session EXCEPT ![w].removed =
          @ \/ (HasKey(active_connections, u)
                  /\ w \in Range(active_connections.lists[u]))]
    /\ UNCHANGED <<inbox, db, req, handed>>

\* The client closes its side of the websocket (environment).
ClientClose(w) ==
    /\ ~Ended(w)
    /\ session[w].open
    /\ session' = [session EXCEPT ![w].open = FALSE]
    /\ UNCHANGED <<active_connections, inbox, db, req, handed>>

\* ---------------------------------------------------------------- database
\* The committed rows.  Every request handler has its own AsyncSession
\* (get_db) and the isolation level is the driver's default, READ COMMITTED:
\* a statement sees what was committed when it runs, and a handler's own
\* inserts are seen by the others from its commit on.
\*   conversations  [id, is_group]
\*   participants   [conversation_id, user_id, role, last_read_at], unique per
\*                  (conversation_id, user_id): uq_conversation_user
\*   messages       [id, conversation_id, sender_id, content, type, is_deleted,
\*                   created_at]
\*   attachments    [message_id, n, file_type]
\*   reactions      [id, message_id, user_id, emoji]: no unique constraint
\*   blocks         [blocker_id, blocked_id], unique: uq_user_block_blocker_blocked
\*   uploads        number of files written under uploads/
\* Primary keys are fresh UUIDs: next_* counts the ids handed out per table.
EmptyDb ==
    [conversations |-> {}, participants |-> {}, messages |-> {},
     attachments |-> {}, reactions |-> {}, blocks |-> {}, uploads |-> 0,
     next_conversation |-> 1, next_message |-> 1, next_reaction |-> 1,
     clock |-> 0]

\* Timestamps.  clock counts the readings of datetime.utcnow() made so far;
\* the k-th reading is PyTime(k).  now() of the database is the start time of
\* the transaction: a transaction that began after the k-th reading and
\* before the next one has DbTime(k), later than PyTime(k) and earlier than
\* PyTime(k + 1).  The two clocks are taken to agree.
PyTime(k) == 2 * k
DbTime(k) == 2 * k + 1

\* The user ids a request can name: the users, and an id of no user.
Nobody == "nobody"
UserIds == Users \cup {Nobody}

\* chat.participants of a loaded conversation, as user ids.
ParticipantIds(d, c) ==
    {p.user_id : p \in {q \in d.participants : q.conversation_id = c}}

\* ------------------------------------------------------- request handlers
NoResult == [status |-> 0, detail |-> ""]
Ok(detail) == [status |-> 200, detail |-> detail]
HttpError(status, detail) == [status |-> status, detail |-> detail]

\* The locals of a request handler.  out, oi, started, gen, li are the state
\* of its fan-out: the send_personal_message calls it still has to make (out,
\* from index oi on) and the list iterator of the call it is in.
\* snap is the identity map of the handler's AsyncSession: the message rows
\* an earlier statement of the request loaded, with their attachments and
\* reactions (every relationship on the way is lazy="selectin").  A later
\* select of the same session that returns one of these messages hands out
\* the object as it was loaded: the session is not expired in between and
\* no statement sets populate_existing.
IdleRequest ==
    [op |-> "idle", pc |-> "idle", user |-> NoUser, chat |-> 0,
     target |-> NoUser, message |-> 0, emoji |-> "", text |-> "",
     files |-> <<>>, loaded |-> {}, found |-> 0,
     out |-> <<>>, oi |-> 1, started |-> FALSE, gen |-> 0, li |-> 0,
     began |-> 0, ids |-> <<>>, view |-> {}, history |-> <<>>,
     existing |-> {}, written |-> 0, fstep |-> 0, route |-> FALSE,
     snap |-> [messages |-> {}, attachments |-> {}, reactions |-> {}],
     result |-> NoResult]

\* The handler returns (or raises an HTTPException): its locals are dropped.
Return(rq, res) ==
    [IdleRequest EXCEPT !.op = rq.op, !.pc = "done", !.user = rq.user,
                        !.chat = rq.chat, !.target = rq.target,
                        !.message = rq.message, !.ids = rq.ids,
                        !.view = rq.view, !.history = rq.history,
                        !.result = res]

\* All orders in which the rows of a set can come back from a query that has
\* no ORDER BY (the participants relationship).
RECURSIVE Orders(_)
Orders(S) ==
    IF S = {} THEN {<<>>}
    ELSE UNION {{<<x>> \o t : t \in Orders(S \ {x})} : x \in S}

\* "for p in participants: await manager.send_personal_message(ev, p.user_id)".
ToEach(ev, order) == [i \in 1..Len(order) |-> [ev |-> ev, user |-> order[i]]]

\* ------------------------------------------ send_personal_message: the loop
\* websocket.py lines 40-48 under the caller's loop, from one await to the
\* next: run until the next send_json ("send") or the end of the caller's
\* loop ("done").  handed: the (event, user) calls of send_personal_message
\* entered on the way, in order.
RECURSIVE PersonalNext(_, _, _)
PersonalNext(ac, f, calls) ==
    IF f.oi > Len(f.out)
    THEN [kind |-> "done", to |-> 0, ev |-> 0, f |-> f, handed |-> calls]
    ELSE LET u == f.out[f.oi].user
         IN IF ~f.started
            THEN IF HasKey(ac, u)
                 THEN PersonalNext(ac,
                          [f EXCEPT !.started = TRUE, !.gen = ac.gen[u], !.li = 0],
                          Append(calls, f.out[f.oi]))
                 ELSE PersonalNext(ac, [f EXCEPT !.oi = @ + 1],
                          Append(calls, f.out[f.oi]))
            ELSE LET l == HeldList(ac, u, f.gen)
                 IN IF f.li < Len(l)
                    THEN [kind |-> "send", to |-> l[f.li + 1],
                          ev |-> f.out[f.oi].ev,
                          f |-> [f EXCEPT !.li = @ + 1], handed |-> calls]
                    ELSE PersonalNext(ac,
                             [f EXCEPT !.oi = @ + 1, !.started = FALSE,
                                       !.gen = 0, !.li = 0],
                             calls)

\* History: the events handed to send_personal_message per user, in order.
RECURSIVE NoteHanded(_, _)
NoteHanded(h, calls) ==
    IF calls = <<>> THEN h
    ELSE NoteHanded([h EXCEPT ![Head(calls).user] = Append(@, Head(calls).ev)],
                    Tail(calls))

\* The fan-out without the try of line 44: the exception of a failed send_json
\* ends the loop and the handler.
FanoutStepRaising(r) ==
    /\ req[r].pc = "fanout"
    /\ LET n == PersonalNext(active_connections, req[r], <<>>)
       IN /\ handed' = NoteHanded(handed, n.handed)
          /\ IF n.kind = "send" /\ SendOk(n.to)
             THEN /\ inbox' = Deliver(inbox, n.to, n.ev)
                  /\ req' = [req EXCEPT ![r] = n.f]
             ELSE /\ inbox' = inbox
                  /\ req' = [req EXCEPT ![r] =
                        Return(req[r], IF n.kind = "send"
                                       THEN HttpError(500, "send_json failed")
                                       ELSE req[r].result)]
    /\ UNCHANGED <<active_connections, session, db>>

\* A handler's fan-out resumes after an await (the refresh, or a send_json).
FanoutStep(r) ==
    /\ req[r].pc = "fanout"
    /\ LET n == PersonalNext(active_connections, req[r], <<>>)
       IN /\ handed' = NoteHanded(handed, n.handed)
          /\ IF n.kind = "send" /\ Stalls(n.to)
             THEN /\ inbox' = inbox
                  /\ req' = [req EXCEPT ![r] = [n.f EXCEPT !.pc = "sending"]]
             ELSE IF n.kind = "send"
             THEN /\ inbox' = Deliver(inbox, n.to, n.ev)
                  /\ req' = [req EXCEPT ![r] = n.f]
             ELSE /\ inbox' = inbox
                  /\ req' = [req EXCEPT ![r] = Return(req[r], req[r].result)]
    /\ UNCHANGED <<active_connections, session, db>>

\* "await self.db.refresh(new_message)" after the commit of the message row
\* (send_message line 192, leave_group line 367, kick_member line 422,
\* add_members line 538): the row is selected again; when it is gone (a
\* delete_group removed the conversation and, by cascade, its messages) the
\* refresh raises InvalidRequestError and the handler ends with 500 before
\* any event is sent.  Otherwise leave_group goes on to select the remaining
\* participants and the others to their sends.
Refresh(r) ==
    /\ req[r].pc = "refresh"
    /\ req' = [req EXCEPT ![r] =
          IF \A m \in db.messages : m.id # req[r].message
          THEN Return(req[r], HttpError(500, "InvalidRequestError"))
          ELSE [req[r] EXCEPT !.pc = IF req[r].op = "leave_group"
                                     THEN "remaining" ELSE "fanout"]]
    /\ UNCHANGED <<active_connections, session, inbox, db, handed>>

\* ---------------------------------------------------------- create_chat
\* The non-group conversations that have both a and b as participants
\* (chats.py lines 82-97, chat_service.py lines 24-39).
DirectConversations(d, a, b) ==
    {c \in d.conversations :
        /\ ~c.is_group
        /\ a \in ParticipantIds(d, c.id)
        /\ b \in ParticipantIds(d, c.id)}

\* create_chat up to its second await, chats.py lines 73-99: the self test,
\* and db.get of the participant (the users table never changes).
CreateChatGetUser(r, a, b) ==
    /\ req[r].pc = "idle"
    /\ LET rq == [IdleRequest EXCEPT !.op = "create_chat", !.user = a, !.target = b]
       IN req' = [req EXCEPT ![r] =
              IF b = a
              THEN Return(rq, HttpError(400, "Cannot chat with yourself"))
              ELSE IF b \notin Users
              THEN Return(rq, HttpError(404, "User not found"))
              ELSE [rq EXCEPT !.pc = "lookup"]]
    /\ UNCHANGED <<active_connections, session, inbox, db, handed>>

\* create_chat, chats.py lines 99-108: the select of the non-group
\* conversations of the two users is answered; scalars().first() of several
\* matching conversations is any of them.  The conversation found goes to
\* _map_conversation_to_chat (chats.py lines 450-540), which builds
\* Chat(is_group=...) without the required field isGroup of the schema: the
\* ValidationError is not caught and the call ends with 500.  When nothing
\* is found the handler adds a Conversation and parks at the flush.
CreateChatLookup(r) ==
    /\ req[r].op = "create_chat"
    /\ req[r].pc = "lookup"
    /\ LET found == DirectConversations(db, req[r].user, req[r].target)
       IN IF found # {}
          THEN \E c \in found :
                  req' = [req EXCEPT ![r] =
                             Return([req[r] EXCEPT !.chat = c.id],
                                    HttpError(500, "ValidationError"))]
          ELSE req' = [req EXCEPT ![r] = [req[r] EXCEPT !.pc = "flush"]]
    /\ UNCHANGED <<active_connections, session, inbox, db, handed>>

\* create_chat, chats.py lines 108-115: the flush sends the INSERT of the
\* conversation, which no other session sees before the commit; the handler
\* adds the two participant rows and parks at the commit.
CreateChatFlush(r) ==
    /\ req[r].op = "create_chat"
    /\ req[r].pc = "flush"
    /\ req' = [req EXCEPT ![r] = [req[r] EXCEPT !.pc = "insert"]]
    /\ UNCHANGED <<active_connections, session, inbox, db, handed>>

\* ChatService.create_new_chat up to its second await, chat_service.py
\* lines 44-55: no test of the two ids and no lookup; the conversation is
\* flushed, and the handler adds the participant rows and parks at the
\* commit.
CreateNewChat(r, a, b) ==
    /\ req[r].pc = "idle"
    /\ req' = [req EXCEPT ![r] =
          [IdleRequest EXCEPT !.op = "create_new_chat", !.pc = "insert",
                              !.user = a, !.target = b]]
    /\ UNCHANGED <<active_connections, session, inbox, db, handed>>

\* A new participant row: last_read_at defaults to datetime.utcnow() when the
\* row is inserted (conversation.py line 71), the reading that the insert makes.
NewParticipant(d, c, u, role) ==
    [conversation_id |-> c, user_id |-> u, role |-> role,
     last_read_at |-> PyTime(d.clock + 1)]

\* The insert of participant rows passes the constraints of the table:
\* uq_conversation_user (and the primary key) on (conversation_id, user_id),
\* and the foreign key to users.
RowsAccepted(d, rows) ==
    /\ \A i \in 1..Len(rows) : rows[i].user_id \in Users
    /\ \A i \in 1..Len(rows), j \in 1..Len(rows) :
          (i # j) => rows[i].user_id # rows[j].user_id
    /\ \A i \in 1..Len(rows) :
          \A q \in d.participants :
              ~(q.conversation_id = rows[i].conversation_id
                /\ q.user_id = rows[i].user_id)

\* The rows create_chat writes (chats.py lines 106-115, chat_service.py lines
\* 46-55): the conversation and one participant row for each of the two.
InsertDirect(d, a, b) ==
    LET id == d.next_conversation
    IN [d EXCEPT !.conversations = @ \cup {[id |-> id, is_group |-> FALSE]},
                 !.participants = @ \cup
                     {NewParticipant(d, id, a, "member"),
                      NewParticipant(d, id, b, "member")},
                 !.next_conversation = id + 1,
                 !.clock = @ + 1]

\* create_chat, chats.py line 115 (create_new_chat, chat_service.py line
\* 55): the conversation and its two participant rows are committed, or the
\* rows break a constraint (create_new_chat for one user twice, or for an id
\* of no user) and nothing is kept; the handler parks at the reload.
CreateChatCommit(r) ==
    /\ req[r].op \in {"create_chat", "create_new_chat"}
    /\ req[r].pc = "insert"
    /\ db.next_conversation <= MaxConversations
    /\ IF RowsAccepted(db, <<NewParticipant(db, db.next_conversation,
                                            req[r].user, "member"),
                             NewParticipant(db, db.next_conversation,
                                            req[r].target, "member")>>)
       THEN /\ db' = InsertDirect(db, req[r].user, req[r].target)
            /\ req' = [req EXCEPT ![r] =
                  [req[r] EXCEPT !.pc = "reload", !.chat = db.next_conversation]]
       ELSE /\ db' = db
            /\ req' = [req EXCEPT ![r] =
                  Return(req[r], HttpError(500, "IntegrityError"))]
    /\ UNCHANGED <<active_connections, session, inbox, handed>>

\* create_chat, chats.py lines 118-126: the conversation is read again and
\* _map_conversation_to_chat raises as above, so the call ends with 500
\* after its rows were committed.  create_new_chat, chat_service.py lines
\* 58-64, returns the conversation it read.
CreateChatReload(r) ==
    /\ req[r].op \in {"create_chat", "create_new_chat"}
    /\ req[r].pc = "reload"
    /\ req' = [req EXCEPT ![r] =
          Return(req[r], IF req[r].op = "create_chat"
                         THEN HttpError(500, "ValidationError")
                         ELSE Ok("conversation"))]
    /\ UNCHANGED <<active_connections, session, inbox, db, handed>>

\* A NULL content column.
NoContent == "<null>"

\* ------------------------------------------------------------ the events
\* send_message, chat_service.py lines 194-204.
MessageEvent(m) ==
    [type |-> m.type, id |-> m.id, chatId |-> m.conversation_id,
     senderId |-> m.sender_id,
     text |-> IF m.content = NoContent THEN "" ELSE m.content]

\* msg_dict of the route send_message, chats.py lines 245-253: the dict has
\* no key "type".
MsgDict(m) ==
    [id |-> m.id, chatId |-> m.conversation_id, senderId |-> m.sender_id,
     text |-> IF m.content = NoContent THEN "" ELSE m.content]

\* delete_message, chat_service.py lines 304-311.
MessageUpdate(c, m) ==
    [type |-> "message_update", id |-> m, chatId |-> c, isRecalled |-> TRUE]

\* broadcast_block_update, websocket.py lines 78-83.
BlockUpdate(blocker, blocked, isBlocked) ==
    [type |-> "user_block_update", blockerId |-> blocker,
     blockedId |-> blocked, isBlocked |-> isBlocked]

\* broadcast_block_update with every user as a target.
BlockUpdateCallsToAll(blocker, blocked, isBlocked) ==
    ToEach(BlockUpdate(blocker, blocked, isBlocked), <<"u1", "u2", "u3">>)

\* broadcast_block_update, websocket.py lines 86-94: the blocker's handles,
\* then the blocked user's, with the loop of send_personal_message.
BlockUpdateCalls(blocker, blocked, isBlocked) ==
    ToEach(BlockUpdate(blocker, blocked, isBlocked), <<blocker, blocked>>)

\* get_chat_details without the participant test of lines 103-104.
ChatAccessAnyone(d, c, u) ==
    IF \A k \in d.conversations : k.id # c
    THEN HttpError(404, "Chat not found")
    ELSE NoResult

\* ------------------------------------------------------- get_chat_details
\* chat_service.py lines 91-106 (chats.py lines 146-157): the failure of the
\* access check of user u on conversation c, or NoResult when it passes.
ChatAccess(d, c, u) ==
    IF \A k \in d.conversations : k.id # c
    THEN HttpError(404, "Chat not found")
    ELSE IF u \notin ParticipantIds(d, c)
    THEN HttpError(403, "Not a participant")
    ELSE NoResult

\* check_block_status with the roles of the two users exchanged.
IsBlockedReversed(d, participants, u) ==
    \E b \in d.blocks : b.blocker_id = u /\ b.blocked_id \in (participants \ {u})

\* ------------------------------------------------------ check_block_status
\* chat_service.py lines 108-118: whether a participant other than u, among
\* the loaded participants, has blocked u.
IsBlocked(d, participants, u) ==
    \E b \in d.blocks : b.blocker_id \in (participants \ {u}) /\ b.blocked_id = u

\* ------------------------------------------------------------ send_message
ImageTypes == {"image/jpeg", "image/png", "image/gif", "image/webp"}
\* The uploads of a request: content type, and whether the file is larger
\* than the 10 MB limit of line 136.
SmallImage == [content_type |-> "image/png", big |-> FALSE]
BigFile == [content_type |-> "application/pdf", big |-> TRUE]

\* str.lower() of line 175, on the content types of the uploads.
Lower(ct) == IF ct = "IMAGE/PNG" THEN "image/png" ELSE ct

\* all(...) of lines 174-177 stops at the first file that is not a listed
\* image; it raises AttributeError when it reaches, before that, a file whose
\* part had no Content-Type header: UploadFile.content_type is None
\* (NoContent here), and None has no lower().
TypeRaises(files) ==
    \E i \in 1..Len(files) :
        /\ files[i].content_type = NoContent
        /\ \A j \in 1..(i - 1) : Lower(files[j].content_type) \in ImageTypes

\* chat_service.py lines 171-178: the type of the new message.
MessageTypeOf(files) ==
    IF files = <<>> THEN "text"
    ELSE IF \A i \in 1..Len(files) : Lower(files[i].content_type) \in ImageTypes
    THEN "image" ELSE "file"

\* send_message, lines 165: get_chat_details.
SendLoad(r, u, c, text, files) ==
    /\ req[r].pc = "idle"
    /\ LET rq  == [IdleRequest EXCEPT !.op = "send_message", !.user = u,
                                      !.chat = c, !.text = text, !.files = files,
                                      !.began = db.clock]
           err == ChatAccess(db, c, u)
       IN req' = [req EXCEPT ![r] =
                     IF err # NoResult THEN Return(rq, err)
                     ELSE [rq EXCEPT !.pc = "check_block",
                                     !.loaded = ParticipantIds(db, c)]]
    /\ UNCHANGED <<active_connections, session, inbox, db, handed>>

\* get_current_user of deps.py, lines 24-51, the dependency of the routes of
\* chats.py: it shares the AsyncSession of the route (Depends(get_db)).  The
\* token is decoded and the user selected (line 46, the first statement of
\* the session: its transaction begins here); the select loads User.messages
\* with their attachments and reactions into the session.  The users table
\* never changes and the token is that of a user, so no 401 here.
GetCurrentUser(r, u) ==
    /\ req[r].pc = "idle"
    /\ LET mine == {x \in db.messages : x.sender_id = u}
       IN req' = [req EXCEPT ![r] =
             [IdleRequest EXCEPT
                 !.op = "route", !.pc = "authed", !.route = TRUE, !.user = u,
                 !.began = db.clock,
                 !.snap = [messages |-> mine,
                           attachments |-> {a \in db.attachments :
                               \E x \in mine : a.message_id = x.id},
                           reactions |-> {a \in db.reactions :
                               \E x \in mine : a.message_id = x.id}]]]
    /\ UNCHANGED <<active_connections, session, inbox, db, handed>>

\* send_message of chats.py (POST /chats/{chat_id}/messages), lines 131-157,
\* after get_current_user: the route has the statements of
\* ChatService.send_message inline; only the dict it hands to the
\* participants differs (MsgDict).  The route reads none of the messages
\* get_current_user loaded.
PostMessage(r, c, text, files) ==
    /\ req[r].op = "route"
    /\ req[r].pc = "authed"
    /\ LET rq  == [IdleRequest EXCEPT !.op = "send_message", !.route = TRUE,
                                      !.user = req[r].user, !.chat = c,
                                      !.text = text, !.files = files,
                                      !.began = req[r].began]
           u   == req[r].user
           err == ChatAccess(db, c, u)
       IN req' = [req EXCEPT ![r] =
                     IF err # NoResult THEN Return(rq, err)
                     ELSE [rq EXCEPT !.pc = "check_block",
                                     !.loaded = ParticipantIds(db, c)]]
    /\ UNCHANGED <<active_connections, session, inbox, db, handed>>

\* The empty check without the None case: only an empty string counts.
NothingToSendEmptyOnly(text, files) == text = "" /\ files = <<>>

\* send_message, line 168 (chats.py line 172): "not text and not files".  The
\* text of the form is absent (None, NoContent here) or a string; both None
\* and the empty string are false.
NothingToSend(text, files) == text \in {NoContent, ""} /\ files = <<>>

\* send_message, lines 166-178: check_block_status, the empty check, and the
\* type of the message.
SendCheckBlock(r) ==
    /\ req[r].op = "send_message"
    /\ req[r].pc = "check_block"
    /\ req' = [req EXCEPT ![r] =
          IF IsBlocked(db, req[r].loaded, req[r].user)
          THEN Return(req[r], HttpError(403, "You are blocked by this user"))
          ELSE IF NothingToSend(req[r].text, req[r].files)
          THEN Return(req[r], HttpError(400, "Message must have text or attachments"))
          ELSE IF TypeRaises(req[r].files)
          THEN Return(req[r], HttpError(500, "AttributeError"))
          ELSE [req[r] EXCEPT !.pc = "flush"]]
    /\ UNCHANGED <<active_connections, session, inbox, db, handed>>

\* The message row of lines 180-185.
NewMessage(d, rq) ==
    [id |-> d.next_message, conversation_id |-> rq.chat, sender_id |-> rq.user,
     content |-> rq.text,
     type |-> MessageTypeOf(rq.files), is_deleted |-> FALSE,
     created_at |-> DbTime(rq.began)]

\* process_attachments, lines 128-137, from file number k on until the next
\* await: a file over the limit raises 400 (the session is rolled back), any
\* other file parks the handler at aiofiles.open, and after the last file
\* the handler parks at the commit of line 191.
AfterFile(rq, k) ==
    IF k > Len(rq.files) THEN [rq EXCEPT !.pc = "write"]
    ELSE IF rq.files[k].big
    THEN Return(rq, HttpError(400, "File exceeds 10MB limit"))
    ELSE [rq EXCEPT !.pc = "attach", !.written = k - 1]

\* send_message, line 187: the flush sends the INSERT of the message (it
\* fails on the foreign key when the conversation is gone); the row stays
\* invisible to the other sessions until the commit.  process_attachments
\* begins.
SendFlush(r) ==
    /\ req[r].op = "send_message"
    /\ req[r].pc = "flush"
    /\ req' = [req EXCEPT ![r] =
          IF \A k \in db.conversations : k.id # req[r].chat
          THEN Return(req[r], HttpError(500, "IntegrityError"))
          ELSE AfterFile(req[r], 1)]
    /\ UNCHANGED <<active_connections, session, inbox, db, handed>>

\* process_attachments, lines 143-145, one await of the current file at a
\* time; fstep counts the awaits of the file that were answered.  The handler
\* is parked at aiofiles.open (fstep 0), at file.read() (1), at f.write (2)
\* and at the close of the "async with" (3).  open creates the file under
\* uploads/ (it stays there whatever the request does afterwards); after the
\* close the attachment row is added to the session and the loop goes on.
ProcessAttachments(r) ==
    /\ req[r].op = "send_message"
    /\ req[r].pc = "attach"
    /\ db' = IF req[r].fstep = 0 THEN [db EXCEPT !.uploads = @ + 1] ELSE db
    /\ req' = [req EXCEPT ![r] =
          IF req[r].fstep < 3
          THEN [req[r] EXCEPT !.fstep = @ + 1]
          ELSE AfterFile([req[r] EXCEPT !.fstep = 0], req[r].written + 2)]
    /\ UNCHANGED <<active_connections, session, inbox, handed>>

\* send_message, line 191: the message and the attachment rows are committed
\* (the commit fails on the foreign key when the conversation has gone in
\* the meantime); the handler parks at the refresh of line 192.
SendCommit(r) ==
    /\ req[r].op = "send_message"
    /\ req[r].pc = "write"
    /\ db.next_message <= MaxMessages
    /\ LET rq  == req[r]
           m   == NewMessage(db, rq)
       IN IF \A k \in db.conversations : k.id # rq.chat
          THEN /\ db' = db
               /\ req' = [req EXCEPT ![r] =
                     Return(rq, HttpError(500, "IntegrityError"))]
          ELSE /\ db' = [db EXCEPT
                     !.messages = @ \cup {m},
                     !.attachments = @ \cup
                         {[message_id |-> m.id, n |-> i,
                           file_type |-> rq.files[i].content_type] :
                             i \in 1..Len(rq.files)},
                     !.next_message = @ + 1]
               /\ \E order \in Orders(rq.loaded) :
                     req' = [req EXCEPT ![r] =
                         [rq EXCEPT !.pc = "refresh", !.message = m.id,
                                    !.out = ToEach(IF rq.route THEN MsgDict(m)
                                                   ELSE MessageEvent(m), order),
                                    !.result = Ok("message")]]
    /\ UNCHANGED <<active_connections, session, inbox, handed>>

\* delete_message without "Message.sender_id == user_id" of line 284.
DeleteSelectAnySender(r, u, c, m) ==
    /\ req[r].pc = "idle"
    /\ LET rq   == [IdleRequest EXCEPT !.op = "delete_message", !.user = u,
                                       !.chat = c, !.message = m]
           rows == {x \in db.messages : x.id = m /\ x.conversation_id = c}
       IN req' = [req EXCEPT ![r] =
              IF rows = {}
              THEN Return(rq, HttpError(404, "Message not found or not owned by user"))
              ELSE IF \E x \in rows : x.is_deleted
              THEN Return(rq, Ok("Message already deleted"))
              ELSE [rq EXCEPT !.pc = "commit",
                              !.loaded = ParticipantIds(db, c)]]
    /\ UNCHANGED <<active_connections, session, inbox, db, handed>>

\* ---------------------------------------------------------- delete_message
\* delete_message, chat_service.py lines 280-296: the message is looked up
\* by id, conversation and sender, in a session that has loaded nothing.
DeleteSelect(r, u, c, m) ==
    /\ req[r].pc = "idle"
    /\ LET rq   == [IdleRequest EXCEPT !.op = "delete_message", !.user = u,
                                       !.chat = c, !.message = m]
           rows == {x \in db.messages : /\ x.id = m
                                        /\ x.conversation_id = c
                                        /\ x.sender_id = u}
       IN req' = [req EXCEPT ![r] =
              IF rows = {}
              THEN Return(rq, HttpError(404, "Message not found or not owned by user"))
              ELSE IF \E x \in rows : x.is_deleted
              THEN Return(rq, Ok("Message already deleted"))
              ELSE [rq EXCEPT !.pc = "commit",
                              !.loaded = ParticipantIds(db, c)]]
    /\ UNCHANGED <<active_connections, session, inbox, db, handed>>

\* delete_message of chats.py (DELETE /chats/{chat_id}/messages/{id}), lines
\* 333-360, after get_current_user.  The WHERE clause of the select is
\* answered from the committed rows; a message that get_current_user loaded
\* comes back as the object of the session, with the is_deleted it had then.
DeleteMessageRoute(r, c, m) ==
    /\ req[r].op = "route"
    /\ req[r].pc = "authed"
    /\ LET rq   == [IdleRequest EXCEPT !.op = "delete_message", !.route = TRUE,
                                       !.user = req[r].user, !.chat = c,
                                       !.message = m, !.began = req[r].began]
           rows == {x \in db.messages : /\ x.id = m
                                        /\ x.conversation_id = c
                                        /\ x.sender_id = req[r].user}
           seen == {x \in req[r].snap.messages : x.id = m}
           objs == IF seen # {} THEN seen ELSE rows
       IN req' = [req EXCEPT ![r] =
              IF rows = {}
              THEN Return(rq, HttpError(404, "Message not found or not owned by user"))
              ELSE IF \E x \in objs : x.is_deleted
              THEN Return(rq, Ok("Message already deleted"))
              ELSE [rq EXCEPT !.pc = "commit",
                              !.loaded = ParticipantIds(db, c)]]
    /\ UNCHANGED <<active_connections, session, inbox, db, handed>>

\* The rows after lines 298-302: the message is marked deleted, its content
\* cleared, its attachments removed.
SoftDelete(d, m) ==
    [d EXCEPT !.messages = {IF x.id = m
                            THEN [x EXCEPT !.is_deleted = TRUE,
                                           !.content = NoContent]
                            ELSE x : x \in @},
              !.attachments = {x \in @ : x.message_id # m}]

\* delete_message, lines 298-316 (chats.py lines 362-382): commit, then
\* notify the participants.  The UPDATE of a row that is gone (its
\* conversation was deleted) raises StaleDataError.  When the object of the
\* session was loaded before another request deleted the message, the UPDATE
\* finds the row and writes the same values again, and the DELETE of its
\* attachment rows finds none, which is a warning only.
DeleteCommit(r) ==
    /\ req[r].op = "delete_message"
    /\ req[r].pc = "commit"
    /\ IF \A x \in db.messages : x.id # req[r].message
       THEN /\ db' = db
            /\ req' = [req EXCEPT ![r] =
                  Return(req[r], HttpError(500, "StaleDataError"))]
       ELSE /\ db' = SoftDelete(db, req[r].message)
            /\ \E order \in Orders(req[r].loaded) :
                  req' = [req EXCEPT ![r] =
                      [req[r] EXCEPT !.pc = "fanout",
                                     !.out = ToEach(MessageUpdate(req[r].chat,
                                                        req[r].message), order),
                                     !.result = Ok("Message deleted")]]
    /\ UNCHANGED <<active_connections, session, inbox, handed>>

\* ------------------------------------------------- block_user, unblock_user
\* status_code=204 of users.py lines 46 and 82: the handler returned None.
Http204(detail) == [status |-> 204, detail |-> detail]

\* block_user up to its second await, users.py lines 56-69.  The self check
\* of line 56 compares the path string with a UUID and is never true; the
\* users table never changes, so db.get of line 60 is answered here.
BlockGetUser(r, u, t) ==
    /\ req[r].pc = "idle"
    /\ LET rq == [IdleRequest EXCEPT !.op = "block_user", !.user = u, !.target = t]
       IN req' = [req EXCEPT ![r] =
              IF t \notin Users THEN Return(rq, HttpError(404, "User not found"))
              ELSE [rq EXCEPT !.pc = "select"]]
    /\ UNCHANGED <<active_connections, session, inbox, db, handed>>

\* block_user without the return of lines 69-71 for a pair already blocked.
BlockSelectAlways(r) ==
    /\ req[r].op = "block_user"
    /\ req[r].pc = "select"
    /\ req' = [req EXCEPT ![r] = [req[r] EXCEPT !.pc = "insert"]]
    /\ UNCHANGED <<active_connections, session, inbox, db, handed>>

\* block_user, lines 65-76: the select of the pair's UserBlock row is
\* answered; a row found ends the call, else the handler goes on to commit.
BlockSelect(r) ==
    /\ req[r].op = "block_user"
    /\ req[r].pc = "select"
    /\ req' = [req EXCEPT ![r] =
          IF [blocker_id |-> req[r].user, blocked_id |-> req[r].target] \in db.blocks
          THEN Return(req[r], Http204("already blocked"))
          ELSE [req[r] EXCEPT !.pc = "insert"]]
    /\ UNCHANGED <<active_connections, session, inbox, db, handed>>

\* block_user, lines 74-79: the row is committed (a concurrent duplicate
\* violates uq_user_block_blocker_blocked), then the update is broadcast.
BlockCommit(r) ==
    /\ req[r].op = "block_user"
    /\ req[r].pc = "insert"
    /\ LET row == [blocker_id |-> req[r].user, blocked_id |-> req[r].target]
       IN IF row \in db.blocks
          THEN /\ db' = db
               /\ req' = [req EXCEPT ![r] =
                     Return(req[r], HttpError(500, "IntegrityError"))]
          ELSE /\ db' = [db EXCEPT !.blocks = @ \cup {row}]
               /\ req' = [req EXCEPT ![r] =
                     [req[r] EXCEPT !.pc = "fanout",
                         !.out = BlockUpdateCalls(req[r].user, req[r].target, TRUE),
                         !.result = Http204("blocked")]]
    /\ UNCHANGED <<active_connections, session, inbox, handed>>

\* unblock_user, users.py lines 91-98.
UnblockSelect(r, u, t) ==
    /\ req[r].pc = "idle"
    /\ LET rq == [IdleRequest EXCEPT !.op = "unblock_user", !.user = u, !.target = t]
       IN req' = [req EXCEPT ![r] =
              IF [blocker_id |-> u, blocked_id |-> t] \in db.blocks
              THEN [rq EXCEPT !.pc = "delete"]
              ELSE Return(rq, Http204("not blocked"))]
    /\ UNCHANGED <<active_connections, session, inbox, db, handed>>

\* unblock_user, lines 99-103: the row is deleted (deleting a row that is
\* already gone only warns), then the update is broadcast.
UnblockCommit(r) ==
    /\ req[r].op = "unblock_user"
    /\ req[r].pc = "delete"
    /\ db' = [db EXCEPT !.blocks = @ \
                 {[blocker_id |-> req[r].user, blocked_id |-> req[r].target]}]
    /\ req' = [req EXCEPT ![r] =
          [req[r] EXCEPT !.pc = "fanout",
              !.out = BlockUpdateCalls(req[r].user, req[r].target, FALSE),
              !.result = Http204("unblocked")]]
    /\ UNCHANGED <<active_connections, session, inbox, handed>>

\* ------------------------------------------------------------ add_reaction
\* add_reaction, chat_service.py lines 653-661.
ReactionUpdate(c, m, e, action, u, count) ==
    [type |-> "reaction_update", chatId |-> c, messageId |-> m, emoji |-> e,
     action |-> action, userId |-> u, count |-> count]

\* The rows the select of lines 604-610 matches.
MatchingReactions(d, m, u, e) ==
    {x \in d.reactions : x.message_id = m /\ x.user_id = u /\ x.emoji = e}

\* The rows after lines 614-628: the row found is deleted (deleting a row
\* that is already gone only warns), or, when none was found (0), a new row
\* is inserted.
ToggleRows(d, found, m, u, e) ==
    IF found # 0
    THEN [d EXCEPT !.reactions = {x \in @ : x.id # found}]
    ELSE [d EXCEPT !.reactions = @ \cup
                       {[id |-> d.next_reaction, message_id |-> m,
                         user_id |-> u, emoji |-> e]},
                   !.next_reaction = @ + 1]

\* Line 651: the rows of the message with the emoji.
ReactionCount(d, m, e) ==
    Cardinality({x \in d.reactions : x.message_id = m /\ x.emoji = e})

\* add_reaction, line 587: get_chat_details.
ReactLoad(r, u, c, m, e) ==
    /\ req[r].pc = "idle"
    /\ LET rq  == [IdleRequest EXCEPT !.op = "add_reaction", !.user = u,
                                      !.chat = c, !.message = m, !.emoji = e]
           err == ChatAccess(db, c, u)
       IN req' = [req EXCEPT ![r] =
                     IF err # NoResult THEN Return(rq, err)
                     ELSE [rq EXCEPT !.pc = "find_message",
                                     !.loaded = ParticipantIds(db, c)]]
    /\ UNCHANGED <<active_connections, session, inbox, db, handed>>

\* add_reaction, lines 590-601: the message must be in the chat and not deleted.
ReactFindMessage(r) ==
    /\ req[r].op = "add_reaction"
    /\ req[r].pc = "find_message"
    /\ req' = [req EXCEPT ![r] =
          IF \E x \in db.messages : /\ x.id = req[r].message
                                    /\ x.conversation_id = req[r].chat
                                    /\ ~x.is_deleted
          THEN [req[r] EXCEPT !.pc = "find_reaction"]
          ELSE Return(req[r], HttpError(404, "Message not found"))]
    /\ UNCHANGED <<active_connections, session, inbox, db, handed>>

\* add_reaction, lines 604-612: first() of the matching rows, any of them.
ReactFindReaction(r) ==
    /\ req[r].op = "add_reaction"
    /\ req[r].pc = "find_reaction"
    /\ LET rows == MatchingReactions(db, req[r].message, req[r].user, req[r].emoji)
       IN \E found \in IF rows = {} THEN {0} ELSE {x.id : x \in rows} :
             req' = [req EXCEPT ![r] =
                 [req[r] EXCEPT !.pc = "commit", !.found = found]]
    /\ UNCHANGED <<active_connections, session, inbox, db, handed>>

\* add_reaction, lines 614-630: delete or insert, and commit; the insert
\* fails on the foreign key when the message is gone.
ReactCommit(r) ==
    /\ req[r].op = "add_reaction"
    /\ req[r].pc = "commit"
    /\ req[r].found = 0 => db.next_reaction <= MaxReactionRows
    /\ IF req[r].found = 0 /\ \A x \in db.messages : x.id # req[r].message
       THEN /\ db' = db
            /\ req' = [req EXCEPT ![r] =
                  Return(req[r], HttpError(500, "IntegrityError"))]
       ELSE /\ db' = ToggleRows(db, req[r].found, req[r].message, req[r].user,
                                req[r].emoji)
            /\ req' = [req EXCEPT ![r] =
                  [req[r] EXCEPT !.pc = "count",
                      !.result = Ok(IF req[r].found # 0 THEN "removed" ELSE "added")]]
    /\ UNCHANGED <<active_connections, session, inbox, handed>>

\* add_reaction, lines 636-664: the rows of the message are read again and
\* the event carries the count of the emoji.
ReactCount(r) ==
    /\ req[r].op = "add_reaction"
    /\ req[r].pc = "count"
    /\ LET ev == ReactionUpdate(req[r].chat, req[r].message, req[r].emoji,
                     req[r].result.detail, req[r].user,
                     ReactionCount(db, req[r].message, req[r].emoji))
       IN \E order \in Orders(req[r].loaded) :
             req' = [req EXCEPT ![r] =
                 [req[r] EXCEPT !.pc = "fanout", !.out = ToEach(ev, order)]]
    /\ UNCHANGED <<active_connections, session, inbox, db, handed>>

\* add_reaction run alone from the rows d: every outcome, as the rows after
\* the commit and the action reported.
ToggleOutcomes(d, m, u, e) ==
    LET rows == MatchingReactions(d, m, u, e)
    IN {[db |-> ToggleRows(d, found, m, u, e),
         action |-> IF found # 0 THEN "removed" ELSE "added"] :
            found \in IF rows = {} THEN {0} ELSE {x.id : x \in rows}}

\* -------------------------------------------------------- create_group_chat
\* The participant rows of create_group_chat, chat_service.py lines 72-77: the
\* creator as admin, then one row per listed id other than the creator's (a
\* bag: an id listed twice gives two rows).
GroupRowsAllMembers(d, id, u, ids) ==
    <<NewParticipant(d, id, u, "member")>> \o
    [i \in 1..Len(ids) |-> NewParticipant(d, id, ids[i], "member")]

GroupRows(d, id, u, ids) ==
    LET others == SelectSeq(ids, LAMBDA x : x # u)
    IN <<NewParticipant(d, id, u, "admin")>> \o
       [i \in 1..Len(others) |-> NewParticipant(d, id, others[i], "member")]

\* create_group_chat up to its second await, lines 68-80: the flush sends
\* the INSERT of the conversation, which no other session sees before the
\* commit; the handler builds the participant rows and parks at the commit.
CreateGroupFlush(r, u, ids) ==
    /\ req[r].pc = "idle"
    /\ req' = [req EXCEPT ![r] =
          [IdleRequest EXCEPT !.op = "create_group_chat", !.pc = "insert",
                              !.user = u, !.ids = ids]]
    /\ UNCHANGED <<active_connections, session, inbox, db, handed>>

\* create_group_chat, line 80: the conversation and the participant rows
\* are committed together, or the commit raises and nothing is kept.
CreateGroupCommit(r) ==
    /\ req[r].op = "create_group_chat"
    /\ req[r].pc = "insert"
    /\ db.next_conversation <= MaxConversations
    /\ LET id   == db.next_conversation
           rows == GroupRows(db, id, req[r].user, req[r].ids)
       IN IF RowsAccepted(db, rows)
          THEN /\ db' = [db EXCEPT
                     !.conversations = @ \cup {[id |-> id, is_group |-> TRUE]},
                     !.participants = @ \cup Range(rows),
                     !.next_conversation = id + 1,
                     !.clock = @ + 1]
               /\ req' = [req EXCEPT ![r] =
                     [req[r] EXCEPT !.pc = "reload", !.chat = id]]
          ELSE /\ db' = db
               /\ req' = [req EXCEPT ![r] =
                     Return(req[r], HttpError(500, "IntegrityError"))]
    /\ UNCHANGED <<active_connections, session, inbox, handed>>

\* create_group_chat, lines 82-89: the conversation is read back and returned.
CreateGroupReload(r) ==
    /\ req[r].op = "create_group_chat"
    /\ req[r].pc = "reload"
    /\ req' = [req EXCEPT ![r] =
          Return([req[r] EXCEPT !.loaded = ParticipantIds(db, req[r].chat)],
                 Ok("group"))]
    /\ UNCHANGED <<active_connections, session, inbox, db, handed>>

\* -------------------------------------------------------------- mark_as_read
\* The participant row of user u in conversation c.
ParticipantRows(d, c, u) ==
    {p \in d.participants : p.conversation_id = c /\ p.user_id = u}

\* mark_as_read, chat_service.py lines 319-331 (chats.py lines 395-409): the
\* row is selected and its last_read_at is set to datetime.utcnow().
MarkSelect(r, u, c) ==
    /\ req[r].pc = "idle"
    /\ LET rq == [IdleRequest EXCEPT !.op = "mark_as_read", !.user = u, !.chat = c]
       IN IF ParticipantRows(db, c, u) = {}
          THEN /\ db' = db
               /\ req' = [req EXCEPT ![r] =
                     Return(rq, HttpError(404, "Chat not found or not a participant"))]
          ELSE /\ db' = [db EXCEPT !.clock = @ + 1]
               /\ req' = [req EXCEPT ![r] =
                     [rq EXCEPT !.pc = "commit", !.began = PyTime(db.clock + 1)]]
    /\ UNCHANGED <<active_connections, session, inbox, handed>>

\* The row update of mark_as_read: the value the handler read is written.
SetCursor(d, c, u, t) ==
    [d EXCEPT !.participants =
        {IF p.conversation_id = c /\ p.user_id = u
         THEN [p EXCEPT !.last_read_at = t] ELSE p : p \in @}]

\* mark_as_read, line 332: the UPDATE of the row is committed; an UPDATE that
\* matches no row (the row was deleted meanwhile) raises StaleDataError.
MarkCommit(r) ==
    /\ req[r].op = "mark_as_read"
    /\ req[r].pc = "commit"
    /\ IF ParticipantRows(db, req[r].chat, req[r].user) = {}
       THEN /\ db' = db
            /\ req' = [req EXCEPT ![r] =
                  Return(req[r], HttpError(500, "StaleDataError"))]
       ELSE /\ db' = SetCursor(db, req[r].chat, req[r].user, req[r].began)
            /\ req' = [req EXCEPT ![r] =
                  Return([req[r] EXCEPT !.found = req[r].began],
                         Ok("Chat marked as read"))]
    /\ UNCHANGED <<active_connections, session, inbox, handed>>

\* ------------------------------------------------------------ get_user_chats
\* unread_count of _map_conversation_to_chat, chat_service.py lines 751-758,
\* from the rows the query loaded: the messages of the conversation newer
\* than the reader's last_read_at that the reader did not send.
UnreadCountOwnToo(d, c, u) ==
    LET mine == ParticipantRows(d, c, u)
    IN IF mine = {} THEN 0
       ELSE LET p == CHOOSE q \in mine : TRUE
            IN Cardinality({m \in d.messages :
                   /\ m.conversation_id = c
                   /\ m.created_at > p.last_read_at})

UnreadCount(d, c, u) ==
    LET mine == ParticipantRows(d, c, u)
    IN IF mine = {} THEN 0
       ELSE LET p == CHOOSE q \in mine : TRUE
            IN Cardinality({m \in d.messages :
                   /\ m.conversation_id = c
                   /\ m.created_at > p.last_read_at
                   /\ m.sender_id # u})

\* The Chat of _map_conversation_to_chat, lines 693-771, in the fields the
\* properties read: id, isGroup, the participants, unreadCount and role, and
\* isBlockedBy: in a direct conversation, whether the other participant is one
\* of blocked_by_ids.
MapConversationToChat(d, conv, u, blocked_by_ids) ==
    LET other_participants == ParticipantIds(d, conv.id) \ {u}
    IN [id |-> conv.id,
        isGroup |-> conv.is_group,
        participants |-> ParticipantIds(d, conv.id),
        unreadCount |-> UnreadCount(d, conv.id, u),
        role |-> (CHOOSE p \in ParticipantRows(d, conv.id, u) : TRUE).role,
        isBlockedBy |-> /\ ~conv.is_group
                        /\ other_participants # {}
                        /\ (CHOOSE o \in other_participants : TRUE) \in blocked_by_ids]

\* The chats of get_user_chats, lines 670-691: the conversations joined with
\* the participant rows of the user, mapped with blocked_by_ids.
UserChats(d, u, blocked_by_ids) ==
    {MapConversationToChat(d, conv, u, blocked_by_ids) :
        conv \in {x \in d.conversations : ParticipantRows(d, x.id, u) # {}}}

\* get_user_chats up to its second await (lines 670-688): the first query has
\* loaded the conversations of the user with their participants and messages;
\* the handler holds them (view: what the mapper makes of these rows) while
\* the query for blocked_by_ids runs.
GetUserChats(r, u) ==
    /\ req[r].pc = "idle"
    /\ req' = [req EXCEPT ![r] =
          [IdleRequest EXCEPT !.op = "get_user_chats", !.pc = "blocked_by",
                              !.user = u, !.view = UserChats(db, u, {})]]
    /\ UNCHANGED <<active_connections, session, inbox, db, handed>>

\* The ids of the users who block u (blocked_by_stmt, lines 687-689).
BlockedByIds(d, u) == {b.blocker_id : b \in {x \in d.blocks : x.blocked_id = u}}

\* get_user_chats from its second await on (lines 688-691): the blockers of
\* the user are read now, and the conversations loaded before are mapped
\* with them.
GetUserChatsBlockedBy(r) ==
    /\ req[r].op = "get_user_chats"
    /\ req[r].pc = "blocked_by"
    /\ req' = [req EXCEPT ![r] =
          Return([req[r] EXCEPT !.view =
                     {[chat EXCEPT !.isBlockedBy =
                          /\ ~chat.isGroup
                          /\ chat.participants \ {req[r].user} # {}
                          /\ (CHOOSE o \in chat.participants \ {req[r].user} : TRUE)
                                \in BlockedByIds(db, req[r].user)] :
                        chat \in req[r].view}],
                 Ok("chats"))]
    /\ UNCHANGED <<active_connections, session, inbox, db, handed>>

\* -------------------------------------------------------------- get_messages
\* The dict of a message in get_messages, chat_service.py lines 234-275, for
\* reader u: text is the content (null for a deleted message).
MessageDto(d, m, u) ==
    [id |-> m.id, chatId |-> m.conversation_id, senderId |-> m.sender_id,
     text |-> m.content, type |-> m.type,
     attachments |-> {a.n : a \in {x \in d.attachments : x.message_id = m.id}},
     reactions |->
        {[emoji |-> e,
          count |-> Cardinality({x \in d.reactions :
                                    x.message_id = m.id /\ x.emoji = e}),
          userHasReacted |-> \E x \in d.reactions :
                                x.message_id = m.id /\ x.emoji = e /\ x.user_id = u] :
            e \in {x.emoji : x \in {y \in d.reactions : y.message_id = m.id}}}]

\* The rows of the query of lines 216-231; query is "" when there is none.
\* ilike on the contents of the model is equality with the content.
MessageRows(d, c, query) ==
    {m \in d.messages :
        /\ m.conversation_id = c
        /\ (query # "") => (m.content = query /\ ~m.is_deleted)}

\* get_messages, line 214: get_chat_details.  Its select loads the
\* conversation with Conversation.messages, and these with their attachments
\* and reactions, into the session.  (It also loads the messages the
\* participants sent elsewhere; they are not messages of this conversation.)
GetMessagesLoad(r, u, c, query) ==
    /\ req[r].pc = "idle"
    /\ LET rq  == [IdleRequest EXCEPT !.op = "get_messages", !.user = u,
                                      !.chat = c, !.text = query]
           err == ChatAccess(db, c, u)
           here == {x \in db.messages : x.conversation_id = c}
       IN req' = [req EXCEPT ![r] =
                     IF err # NoResult THEN Return(rq, err)
                     ELSE [rq EXCEPT
                             !.pc = "select",
                             !.snap = [messages |-> here,
                                       attachments |-> {a \in db.attachments :
                                           \E x \in here : a.message_id = x.id},
                                       reactions |-> {a \in db.reactions :
                                           \E x \in here : a.message_id = x.id}]]]
    /\ UNCHANGED <<active_connections, session, inbox, db, handed>>

\* get_messages, lines 216-276: the rows of the committed state that pass
\* the WHERE clause, in the order of created_at (rows of equal created_at in
\* any order), each as its dict.  A row of a message that get_chat_details
\* loaded is returned as the object of the session: its content, its
\* attachments and its reactions are those of the load, whatever was
\* committed since; a message committed after the load is read now.
GetMessagesSelect(r) ==
    /\ req[r].op = "get_messages"
    /\ req[r].pc = "select"
    /\ \E order \in Orders(MessageRows(db, req[r].chat, req[r].text)) :
          /\ \A i \in 1..Len(order), j \in 1..Len(order) :
                (i < j) => order[i].created_at <= order[j].created_at
          /\ LET snap == req[r].snap
                 Seen(m) == {x \in snap.messages : x.id = m.id}
                 Dto(m) == IF Seen(m) # {}
                           THEN MessageDto(snap, CHOOSE x \in Seen(m) : TRUE,
                                           req[r].user)
                           ELSE MessageDto(db, m, req[r].user)
             IN req' = [req EXCEPT ![r] =
                   Return([req[r] EXCEPT !.history =
                               [i \in 1..Len(order) |-> Dto(order[i])]],
                          Ok("messages"))]
    /\ UNCHANGED <<active_connections, session, inbox, db, handed>>

\* ---------------------------------------------------------- group operations
\* A group_event that names a user (kick_member lines 426-431 and 445-450).
GroupEvent(event, c, u) ==
    [type |-> "group_event", event |-> event, chatId |-> c, userId |-> u]

\* A system message row: no sender, type system (lines 414-419, 361-366).
SystemMessage(d, c, content, began) ==
    [id |-> d.next_message, conversation_id |-> c, sender_id |-> NoUser,
     content |-> content, type |-> "system", is_deleted |-> FALSE,
     created_at |-> DbTime(began)]

\* The role of user u among the participants of conversation c.
RoleOf(d, c, u) == (CHOOSE p \in ParticipantRows(d, c, u) : TRUE).role

\* The group test with every conversation taken for a group.
IsGroupAny(d, c) == \E k \in d.conversations : k.id = c

\* "chat.is_group" of the loaded conversation, chat_service.py lines 339,
\* 395, 466, 491.
IsGroup(d, c) == \E k \in d.conversations : k.id = c /\ k.is_group

\* -------------------------------------------------------------- kick_member
\* kick_member without the test of line 408.
KickChecksNoSelf(d, c, a, t) ==
    IF ChatAccess(d, c, a) # NoResult THEN ChatAccess(d, c, a)
    ELSE IF ~IsGroup(d, c) THEN HttpError(400, "Not a group chat")
    ELSE IF RoleOf(d, c, a) # "admin"
    THEN HttpError(403, "Only admin can kick members")
    ELSE IF t \notin ParticipantIds(d, c) THEN HttpError(404, "User not in group")
    ELSE NoResult

\* kick_member, lines 393-409: get_chat_details and the checks, in order.
KickChecks(d, c, a, t) ==
    IF ChatAccess(d, c, a) # NoResult THEN ChatAccess(d, c, a)
    ELSE IF ~IsGroup(d, c) THEN HttpError(400, "Not a group chat")
    ELSE IF RoleOf(d, c, a) # "admin"
    THEN HttpError(403, "Only admin can kick members")
    ELSE IF t \notin ParticipantIds(d, c) THEN HttpError(404, "User not in group")
    ELSE IF t = a THEN HttpError(400, "Cannot kick self")
    ELSE NoResult

KickLoad(r, a, c, t) ==
    /\ req[r].pc = "idle"
    /\ LET rq  == [IdleRequest EXCEPT !.op = "kick_member", !.user = a,
                                      !.chat = c, !.target = t,
                                      !.began = db.clock]
           err == KickChecks(db, c, a, t)
       IN req' = [req EXCEPT ![r] =
                     IF err # NoResult THEN Return(rq, err)
                     ELSE [rq EXCEPT !.pc = "write",
                                     !.loaded = ParticipantIds(db, c)]]
    /\ UNCHANGED <<active_connections, session, inbox, db, handed>>

\* The sends of kick_member with the system message sent to the target too.
KickCallsToAll(c, t, m, order) ==
    <<[ev |-> GroupEvent("user_kicked", c, t), user |-> t],
      [ev |-> MessageEvent(m), user |-> t]>> \o
    [i \in 1..(2 * Len(order)) |->
        [ev   |-> IF i % 2 = 1 THEN MessageEvent(m)
                  ELSE GroupEvent("member_removed", c, t),
         user |-> order[(i + 1) \div 2]]]

\* The sends of kick_member, lines 426-458: user_kicked to the target, then
\* for each other loaded participant the system message and member_removed.
KickCalls(c, t, m, order) ==
    <<[ev |-> GroupEvent("user_kicked", c, t), user |-> t]>> \o
    [i \in 1..(2 * Len(order)) |->
        [ev   |-> IF i % 2 = 1 THEN MessageEvent(m)
                  ELSE GroupEvent("member_removed", c, t),
         user |-> order[(i + 1) \div 2]]]

\* kick_member, lines 411-421: the target's row is deleted and the system
\* message inserted in one commit; the insert fails on the foreign key when
\* the conversation is gone.
KickCommit(r) ==
    /\ req[r].op = "kick_member"
    /\ req[r].pc = "write"
    /\ db.next_message <= MaxMessages
    /\ LET rq == req[r]
           m  == SystemMessage(db, rq.chat,
                               rq.user \o " removed " \o rq.target, rq.began)
       IN IF \A k \in db.conversations : k.id # rq.chat
          THEN /\ db' = db
               /\ req' = [req EXCEPT ![r] =
                     Return(rq, HttpError(500, "IntegrityError"))]
          ELSE /\ db' = [db EXCEPT
                     !.participants = @ \ ParticipantRows(db, rq.chat, rq.target),
                     !.messages = @ \cup {m},
                     !.next_message = @ + 1]
               /\ \E order \in Orders(rq.loaded \ {rq.target}) :
                     req' = [req EXCEPT ![r] =
                         [rq EXCEPT !.pc = "refresh", !.message = m.id,
                                    !.out = KickCalls(rq.chat, rq.target, m, order),
                                    !.result = Ok("User kicked")]]
    /\ UNCHANGED <<active_connections, session, inbox, handed>>

\* -------------------------------------------------------------- leave_group
\* leave_group, lines 338-340: get_chat_details and the group test.
LeaveLoad(r, u, c) ==
    /\ req[r].pc = "idle"
    /\ LET rq  == [IdleRequest EXCEPT !.op = "leave_group", !.user = u, !.chat = c]
           err == ChatAccess(db, c, u)
       IN req' = [req EXCEPT ![r] =
                     IF err # NoResult THEN Return(rq, err)
                     ELSE IF ~IsGroup(db, c)
                     THEN Return(rq, HttpError(400, "Cannot leave a 1-on-1 chat"))
                     ELSE [rq EXCEPT !.pc = "select"]]
    /\ UNCHANGED <<active_connections, session, inbox, db, handed>>

\* leave_group, lines 343-353: the caller's participant row is selected.
LeaveSelect(r) ==
    /\ req[r].op = "leave_group"
    /\ req[r].pc = "select"
    /\ req' = [req EXCEPT ![r] =
          IF ParticipantRows(db, req[r].chat, req[r].user) = {}
          THEN Return(req[r], HttpError(403, "Not a participant"))
          ELSE [req[r] EXCEPT !.pc = "delete"]]
    /\ UNCHANGED <<active_connections, session, inbox, db, handed>>

\* leave_group, lines 355-356: the row is deleted and the delete committed.
LeaveCommitRow(r) ==
    /\ req[r].op = "leave_group"
    /\ req[r].pc = "delete"
    /\ db' = [db EXCEPT !.participants =
                 @ \ ParticipantRows(db, req[r].chat, req[r].user)]
    /\ req' = [req EXCEPT ![r] = [req[r] EXCEPT !.pc = "message"]]
    /\ UNCHANGED <<active_connections, session, inbox, handed>>

\* leave_group, lines 359-366: the system message is inserted and committed in
\* a second transaction; the insert fails on the foreign key when the
\* conversation is gone.
LeaveCommitMessage(r) ==
    /\ req[r].op = "leave_group"
    /\ req[r].pc = "message"
    /\ db.next_message <= MaxMessages
    /\ LET rq == req[r]
           m  == SystemMessage(db, rq.chat, rq.user \o " has left the group",
                               db.clock)
       IN IF \A k \in db.conversations : k.id # rq.chat
          THEN /\ db' = db
               /\ req' = [req EXCEPT ![r] =
                     Return(rq, HttpError(500, "IntegrityError"))]
          ELSE /\ db' = [db EXCEPT !.messages = @ \cup {m},
                                   !.next_message = @ + 1]
               /\ req' = [req EXCEPT ![r] =
                     [rq EXCEPT !.pc = "refresh", !.message = m.id]]
    /\ UNCHANGED <<active_connections, session, inbox, handed>>

\* leave_group with the leaver kept among the recipients.
LeaveRecipientsAll(d, c, u) == ParticipantIds(d, c) \cup {u}

\* leave_group, lines 380-382: the participants that remain.
LeaveRecipients(d, c, u) == ParticipantIds(d, c)

\* leave_group, lines 368-389: the remaining participants are selected and the
\* system message is sent to each of them.
LeaveRemaining(r) ==
    /\ req[r].op = "leave_group"
    /\ req[r].pc = "remaining"
    /\ LET rq == req[r]
           ev == [type |-> "system", id |-> rq.message, chatId |-> rq.chat,
                  senderId |-> NoUser, text |-> rq.user \o " has left the group"]
           to == LeaveRecipients(db, rq.chat, rq.user)
       IN \E order \in Orders(to) :
             req' = [req EXCEPT ![r] =
                 [rq EXCEPT !.pc = "fanout", !.loaded = to,
                            !.out = ToEach(ev, order),
                            !.result = Ok("Left group")]]
    /\ UNCHANGED <<active_connections, session, inbox, db, handed>>

\* ------------------------------------------------------------- delete_group
\* delete_group without the admin test of lines 470-472.
DeleteGroupChecksAnyone(d, c, a) ==
    IF ChatAccess(d, c, a) # NoResult THEN ChatAccess(d, c, a)
    ELSE IF ~IsGroup(d, c) THEN HttpError(400, "Not a group chat")
    ELSE NoResult

\* delete_group, lines 464-472: get_chat_details and the checks.
DeleteGroupChecks(d, c, a) ==
    IF ChatAccess(d, c, a) # NoResult THEN ChatAccess(d, c, a)
    ELSE IF ~IsGroup(d, c) THEN HttpError(400, "Not a group chat")
    ELSE IF RoleOf(d, c, a) # "admin"
    THEN HttpError(403, "Only admin can dissolve group")
    ELSE NoResult

\* The group_dissolved event of lines 475-479.
Dissolved(c) == [type |-> "group_event", event |-> "group_dissolved", chatId |-> c]

DeleteGroupLoad(r, a, c) ==
    /\ req[r].pc = "idle"
    /\ LET rq  == [IdleRequest EXCEPT !.op = "delete_group", !.user = a, !.chat = c]
           err == DeleteGroupChecks(db, c, a)
       IN IF err # NoResult
          THEN req' = [req EXCEPT ![r] = Return(rq, err)]
          ELSE \E order \in Orders(ParticipantIds(db, c)) :
                  req' = [req EXCEPT ![r] =
                      [rq EXCEPT !.pc = "notify",
                                 !.loaded = ParticipantIds(db, c),
                                 !.out = ToEach(Dissolved(c), order)]]
    /\ UNCHANGED <<active_connections, session, inbox, db, handed>>

\* delete_group, lines 481-482: the loop of sends, from one await to the
\* next; after the last send the handler goes on to the delete.
DeleteGroupNotify(r) ==
    /\ req[r].op = "delete_group"
    /\ req[r].pc = "notify"
    /\ LET n == PersonalNext(active_connections, req[r], <<>>)
       IN /\ handed' = NoteHanded(handed, n.handed)
          /\ IF n.kind = "send"
             THEN /\ inbox' = Deliver(inbox, n.to, n.ev)
                  /\ req' = [req EXCEPT ![r] = n.f]
             ELSE /\ inbox' = inbox
                  /\ req' = [req EXCEPT ![r] = [n.f EXCEPT !.pc = "delete"]]
    /\ UNCHANGED <<active_connections, session, db>>

\* The rows that go with conversation c: the cascade of the relationships
\* (conversation.py lines 33-44) and of the foreign keys.
WithoutConversation(d, c) ==
    LET gone == {m.id : m \in {x \in d.messages : x.conversation_id = c}}
    IN [d EXCEPT
           !.conversations = {k \in @ : k.id # c},
           !.participants = {p \in @ : p.conversation_id # c},
           !.messages = {m \in @ : m.conversation_id # c},
           !.attachments = {x \in @ : x.message_id \notin gone},
           !.reactions = {x \in @ : x.message_id \notin gone}]

\* delete_group, lines 484-485: the conversation is deleted and the delete
\* committed.
DeleteGroupCommit(r) ==
    /\ req[r].op = "delete_group"
    /\ req[r].pc = "delete"
    /\ db' = WithoutConversation(db, req[r].chat)
    /\ req' = [req EXCEPT ![r] = Return(req[r], Ok("dissolved"))]
    /\ UNCHANGED <<active_connections, session, inbox, handed>>

\* --------------------------------------------------------------- add_members
\* add_members, lines 489-497: get_chat_details and the checks.
AddChecks(d, c, a) ==
    IF ChatAccess(d, c, a) # NoResult THEN ChatAccess(d, c, a)
    ELSE IF ~IsGroup(d, c) THEN HttpError(400, "Not a group chat")
    ELSE IF RoleOf(d, c, a) # "admin"
    THEN HttpError(403, "Only admin can add members")
    ELSE NoResult

\* new_ids of lines 500-501: the listed ids that are not among the loaded
\* participants, as listed.
NewIds(ids, existing) == SelectSeq(ids, LAMBDA x : x \notin existing)

AddLoad(r, a, c, ids) ==
    /\ req[r].pc = "idle"
    /\ LET rq  == [IdleRequest EXCEPT !.op = "add_members", !.user = a,
                                      !.chat = c, !.ids = ids]
           err == AddChecks(db, c, a)
       IN req' = [req EXCEPT ![r] =
              IF err # NoResult THEN Return(rq, err)
              ELSE IF NewIds(ids, ParticipantIds(db, c)) = <<>>
              THEN Return(rq, Ok("No new members to add"))
              ELSE [rq EXCEPT !.pc = "insert",
                              !.existing = ParticipantIds(db, c)]]
    /\ UNCHANGED <<active_connections, session, inbox, db, handed>>

\* add_members, lines 506-511: one member row per new id, committed together
\* or not at all.
AddCommitRows(r) ==
    /\ req[r].op = "add_members"
    /\ req[r].pc = "insert"
    /\ LET rq   == req[r]
           new  == NewIds(rq.ids, rq.existing)
           rows == [i \in 1..Len(new) |-> NewParticipant(db, rq.chat, new[i], "member")]
       IN IF RowsAccepted(db, rows) /\ \E k \in db.conversations : k.id = rq.chat
          THEN /\ db' = [db EXCEPT !.participants = @ \cup Range(rows),
                                   !.clock = @ + 1]
               /\ req' = [req EXCEPT ![r] = [rq EXCEPT !.pc = "reload"]]
          ELSE /\ db' = db
               /\ req' = [req EXCEPT ![r] =
                     Return(rq, HttpError(500, "IntegrityError"))]
    /\ UNCHANGED <<active_connections, session, inbox, handed>>

\* add_members, lines 514-521: the conversation is read again; first() is
\* None when it is gone and chat.participants raises.
AddReload(r) ==
    /\ req[r].op = "add_members"
    /\ req[r].pc = "reload"
    /\ req' = [req EXCEPT ![r] =
          IF \A k \in db.conversations : k.id # req[r].chat
          THEN Return(req[r], HttpError(500, "AttributeError"))
          ELSE [req[r] EXCEPT !.pc = "message", !.began = db.clock,
                              !.loaded = ParticipantIds(db, req[r].chat)]]
    /\ UNCHANGED <<active_connections, session, inbox, db, handed>>

\* ", ".join of line 528.
RECURSIVE Join(_)
Join(names) ==
    IF names = <<>> THEN ""
    ELSE IF Len(names) = 1 THEN names[1]
    ELSE names[1] \o ", " \o Join(Tail(names))

\* The sends of add_members, lines 553-580, for the reloaded participants in
\* the given order: the system message, then added_to_group to a new member
\* or member_added (with the added users) to the others.
AddCalls(c, m, order, new) ==
    LET added == SelectSeq(order, LAMBDA x : x \in new)
    IN [i \in 1..(2 * Len(order)) |->
          LET p == order[(i + 1) \div 2]
          IN [ev |-> IF i % 2 = 1 THEN MessageEvent(m)
                     ELSE IF p \in new
                     THEN [type |-> "group_event", event |-> "added_to_group",
                           chatId |-> c]
                     ELSE [type |-> "group_event", event |-> "member_added",
                           chatId |-> c, users |-> added],
              user |-> p]]

\* add_members, lines 525-537: the system message names the added users among
\* the reloaded participants and is committed in a second transaction.
AddCommitMessage(r) ==
    /\ req[r].op = "add_members"
    /\ req[r].pc = "message"
    /\ db.next_message <= MaxMessages
    /\ LET rq  == req[r]
           new == Range(NewIds(rq.ids, rq.existing))
       IN IF \A k \in db.conversations : k.id # rq.chat
          THEN /\ db' = db
               /\ req' = [req EXCEPT ![r] =
                     Return(rq, HttpError(500, "IntegrityError"))]
          ELSE \E order \in Orders(rq.loaded) :
                  LET added == SelectSeq(order, LAMBDA x : x \in new)
                      m == SystemMessage(db, rq.chat,
                               rq.user \o " added " \o Join(added), rq.began)
                  IN /\ db' = [db EXCEPT !.messages = @ \cup {m},
                                         !.next_message = @ + 1]
                     /\ req' = [req EXCEPT ![r] =
                           [rq EXCEPT !.pc = "refresh", !.message = m.id,
                                      !.out = AddCalls(rq.chat, m, order, new),
                                      !.result = Ok("Members added")]]
    /\ UNCHANGED <<active_connections, session, inbox, handed>>

\* ------------------------------------------------------------ the fixture
\* A database and a registry the operations above reach: u1 opened a direct
\* conversation (1) with u2 and sent one message (1) with text and an image
\* into it; u1 created the group 2 with u2 and u3.
FixtureDb ==
    [EmptyDb EXCEPT
        !.conversations = {[id |-> 1, is_group |-> FALSE],
                           [id |-> 2, is_group |-> TRUE]},
        !.participants =
            {[conversation_id |-> 1, user_id |-> "u1", role |-> "member",
              last_read_at |-> PyTime(1)],
             [conversation_id |-> 1, user_id |-> "u2", role |-> "member",
              last_read_at |-> PyTime(1)],
             [conversation_id |-> 2, user_id |-> "u1", role |-> "admin",
              last_read_at |-> PyTime(2)],
             [conversation_id |-> 2, user_id |-> "u2", role |-> "member",
              last_read_at |-> PyTime(2)],
             [conversation_id |-> 2, user_id |-> "u3", role |-> "member",
              last_read_at |-> PyTime(2)]},
        !.messages = {[id |-> 1, conversation_id |-> 1, sender_id |-> "u1",
                       content |-> "hi", type |-> "image", is_deleted |-> FALSE,
                       created_at |-> DbTime(2)]},
        !.attachments = {[message_id |-> 1, n |-> 1, file_type |-> "image/png"]},
        !.uploads = 1,
        !.next_conversation = 3,
        !.next_message = 2,
        !.clock = 2]

\* The registry after the websockets of S among 1..n connected in this order.
RECURSIVE RegisterAll(_, _)
RegisterAll(n, S) ==
    IF n = 0 THEN EmptyRegistry
    ELSE IF n \in S THEN Register(RegisterAll(n - 1, S), UserOf(n), n)
    ELSE RegisterAll(n - 1, S)

Receiving == [NewSession EXCEPT !.pc = "receiving", !.transition = TRUE]

\* --------------------------------------- specification: sending and blocks
\* The registered websockets stay connected; requests send messages into the
\* conversations of the fixture (and into one that does not exist) while
\* users block and unblock each other.
ChatIds == {1, 2, 3}
Texts == {"", "hi"}
FileLists == {<<>>, <<SmallImage>>, <<SmallImage, BigFile>>}

InitChat ==
    /\ active_connections = RegisterAll(NumSockets, Sockets)
    /\ session = [w \in Sockets |-> Receiving]
    /\ inbox = [w \in Sockets |-> <<>>]
    /\ db = FixtureDb
    /\ req = [r \in Requests |-> IdleRequest]
    /\ handed = [u \in Users |-> <<>>]

NextSend ==
    \E r \in Requests :
        \/ \E u \in Users, c \in ChatIds, text \in Texts, files \in FileLists :
              SendLoad(r, u, c, text, files)
        \/ SendCheckBlock(r)
        \/ SendFlush(r)
        \/ ProcessAttachments(r)
        \/ SendCommit(r)
        \/ \E u \in Users, t \in UserIds : BlockGetUser(r, u, t)
        \/ BlockSelect(r)
        \/ BlockCommit(r)
        \/ \E u \in Users, t \in Users : UnblockSelect(r, u, t)
        \/ UnblockCommit(r)
        \/ Refresh(r)
        \/ FanoutStep(r)

SpecSend == InitChat /\ [][NextSend]_vars

\* ------------------------------------------------ specification: delivery
\* Every websocket but one is connected; the clients may go away at any time
\* (their handles stay registered and fail), the last websocket connects, and
\* u1 and u2 send into their direct conversation and block each other.
LateSocket == CHOOSE w \in Sockets : UserOf(w) = "u2"
Staying == Sockets \ {LateSocket}
Pair == {"u1", "u2"}

InitRouter ==
    /\ active_connections = RegisterAll(NumSockets, Staying)
    /\ session = [w \in Sockets |-> IF w \in Staying THEN Receiving ELSE NewSession]
    /\ inbox = [w \in Sockets |-> <<>>]
    /\ db = FixtureDb
    /\ req = [r \in Requests |-> IdleRequest]
    /\ handed = [u \in Users |-> <<>>]

NextRouter ==
    \/ \E r \in Requests :
          \/ SendLoad(r, "u1", 1, "hi", <<>>)
          \/ SendCheckBlock(r)
          \/ SendFlush(r)
          \/ SendCommit(r)
          \/ \E u \in Pair : \E t \in Pair \ {u} : BlockGetUser(r, u, t)
          \/ BlockSelect(r)
          \/ BlockCommit(r)
          \/ Refresh(r)
          \/ FanoutStep(r)
    \/ \E w \in Sockets : ClientClose(w)
    \/ WsConnect(LateSocket)
    \/ WsAcceptFails(LateSocket)
    \/ WsBroadcastStep(LateSocket)

SpecRouter == InitRouter /\ [][NextRouter]_vars

\* ------------------------------------------------- specification: recall
\* u1 and u2 recall messages (their own, the other's, one that does not exist
\* yet), through the service and through the route of chats.py, while u1
\* sends a message with an image into the direct conversation.
NextDelete ==
    \E r \in Requests :
        \/ \E u \in Pair, c \in {1, 2}, m \in {1, 2} :
              DeleteSelect(r, u, c, m)
        \/ \E u \in Pair : GetCurrentUser(r, u)
        \/ \E c \in {1, 2}, m \in {1, 2} : DeleteMessageRoute(r, c, m)
        \/ DeleteCommit(r)
        \/ SendLoad(r, "u1", 1, "hi", <<SmallImage>>)
        \/ SendCheckBlock(r)
        \/ SendFlush(r)
        \/ ProcessAttachments(r)
        \/ SendCommit(r)
        \/ Refresh(r)
        \/ FanoutStep(r)

SpecDelete == InitChat /\ [][NextDelete]_vars

\* ---------------------------------------------- specification: reactions
\* u2 has reacted to the message of the fixture; users toggle reactions.
Emojis == {"like", "heart"}

InitReactions ==
    /\ active_connections = RegisterAll(NumSockets, Sockets)
    /\ session = [w \in Sockets |-> Receiving]
    /\ inbox = [w \in Sockets |-> <<>>]
    /\ db = [FixtureDb EXCEPT
                !.reactions = {[id |-> 1, message_id |-> 1, user_id |-> "u2",
                                emoji |-> "like"]},
                !.next_reaction = 2]
    /\ req = [r \in Requests |-> IdleRequest]
    /\ handed = [u \in Users |-> <<>>]

NextReactions ==
    \E r \in Requests :
        \/ \E u \in Users, c \in {1, 3}, m \in {1, 2}, e \in Emojis :
              ReactLoad(r, u, c, m, e)
        \/ ReactFindMessage(r)
        \/ ReactFindReaction(r)
        \/ ReactCommit(r)
        \/ ReactCount(r)
        \/ FanoutStep(r)

SpecReactions == InitReactions /\ [][NextReactions]_vars

\* ---------------------------------- specification: direct conversations
InitDirect ==
    /\ active_connections = EmptyRegistry
    /\ session = [w \in Sockets |-> NewSession]
    /\ inbox = [w \in Sockets |-> <<>>]
    /\ db = EmptyDb
    /\ req = [r \in Requests |-> IdleRequest]
    /\ handed = [u \in Users |-> <<>>]

NextDirect ==
    \E r \in Requests :
        \/ \E a \in Users, b \in UserIds : CreateChatGetUser(r, a, b)
        \/ CreateChatLookup(r)
        \/ CreateChatFlush(r)
        \/ CreateChatCommit(r)
        \/ CreateChatReload(r)

SpecDirect == InitDirect /\ [][NextDirect]_vars

\* ------------------------------------------- specification: the presence
\* The sessions of websocket_endpoint over one ConnectionManager.
InitPresence ==
    /\ active_connections = EmptyRegistry
    /\ session = [w \in Sockets |-> NewSession]
    /\ inbox = [w \in Sockets |-> <<>>]
    /\ db = EmptyDb
    /\ req = [r \in Requests |-> IdleRequest]
    /\ handed = [u \in Users |-> <<>>]

NextPresence ==
    \E w \in Sockets :
        \/ WsConnect(w)
        \/ WsAcceptFails(w)
        \/ WsBroadcastStep(w)
        \/ WsDisconnect(w)
        \/ WsReceiveError(w)
        \/ ClientClose(w)

SpecPresence == InitPresence /\ [][NextPresence]_vars

\* The ConnectionManager with all its methods: the sessions of the endpoint,
\* and disconnect() called for any handle and any user at any time.
NextManager ==
    \E w \in Sockets :
        \/ WsConnect(w)
        \/ WsAcceptFails(w)
        \/ WsBroadcastStep(w)
        \/ WsDisconnect(w)
        \/ WsReceiveError(w)
        \/ ClientClose(w)
        \/ \E u \in Users : Disconnect(w, u)

SpecManager == InitPresence /\ [][NextManager]_vars

\* ------------------------------------------------------ claims: presence
\* The websockets of user u whose session registered them in connect() and
\* for which neither disconnect_async() nor disconnect() has run since.
ConnectedSockets(u) ==
    {w \in Sockets : /\ UserOf(w) = u
                     /\ session[w].pc \in {"connect_bcast", "receiving", "crashed"}
                     /\ ~session[w].removed}

\* C2: a user_status_change event is sent only on a real presence transition
\* (first handle registered, last handle removed): every status event a
\* websocket received was built by a connect() or disconnect_async() that
\* changed its user's presence.
C2_StatusOnlyOnTransition ==
    \A w \in Sockets : \A i \in 1..Len(inbox[w]) :
        inbox[w][i].type = "user_status_change" => inbox[w][i].transition

\* C3: no key of active_connections maps to an empty list, and the handles
\* listed for a user are exactly those connected and not yet disconnected
\* (each once), so a user is online iff such a handle exists.
C3_RegistryMatchesSessions ==
    \A u \in Users :
        LET l == active_connections.lists[u]
        IN /\ HasKey(active_connections, u) <=> l # <<>>
           /\ Range(l) = ConnectedSockets(u)
           /\ Cardinality(Range(l)) = Len(l)
           /\ HasKey(active_connections, u) <=> ConnectedSockets(u) # {}

\* C3's case: one of u1's two handles was taken out by disconnect() after its
\* endpoint had crashed, and u1 is still online with the other; u2 connected
\* and disconnected its only handle and has no entry.
C3_Witness ==
    /\ session[1].pc = "crashed"
    /\ session[1].removed
    /\ session[3].pc = "receiving"
    /\ HasKey(active_connections, "u1")
    /\ session[2].pc = "closed"
    /\ ~HasKey(active_connections, "u2")

\* C4: once a session that entered connect() has ended, for whatever reason,
\* its websocket is no longer registered.
C4_EndedSessionUnregistered ==
    \A w \in Sockets :
        Ended(w) => w \notin Range(active_connections.lists[UserOf(w)])

\* ------------------------------------------ claims: direct conversations
\* C1: for distinct users a and b, once the find-or-create-direct requests
\* for the pair (by a for b, by b for a) have returned, exactly one non-group
\* conversation of a and b exists.
C1_OneDirectPerPair ==
    \A a \in Users, b \in Users :
        (/\ a # b
         /\ \A r \in Requests : req[r].pc \in {"idle", "done"}
         /\ \E r \in Requests : /\ req[r].op = "create_chat"
                                /\ {req[r].user, req[r].target} = {a, b})
        => Cardinality(DirectConversations(db, a, b)) = 1

\* ------------------------------------------------------ claims: sending
\* Some participant of conversation c other than u has blocked u.
BlockedIn(c, u) ==
    \E b \in db.blocks :
        /\ b.blocked_id = u
        /\ b.blocker_id \in ParticipantIds(db, c) \ {u}

Blocked == HttpError(403, "You are blocked by this user")

\* C5: when send_message by S into C reaches check_block_status while another
\* participant of C holds a block on S, the call fails with the Blocked
\* failure and ends, no Message or Attachment row is created and no handle
\* receives an event.
C5_BlockedSendRejected ==
    [][\A r \in Requests :
          (/\ req[r].op = "send_message"
           /\ req[r].pc = "check_block"
           /\ req'[r] # req[r]
           /\ BlockedIn(req[r].chat, req[r].user))
          => /\ req'[r].pc = "done"
             /\ req'[r].result = Blocked
             /\ db'.messages = db.messages
             /\ db'.attachments = db.attachments
             /\ inbox' = inbox]_vars

C5_Witness ==
    \E r \in Requests :
        /\ req[r].op = "send_message"
        /\ req[r].pc = "done"
        /\ req[r].result = Blocked
        /\ req[r].chat = 2
        /\ BlockedIn(2, req[r].user)


\* ------------------------------------------------------ claims: delivery
PersonalEvent(e) == e.type # "user_status_change"

\* Handle w received the event request r fans out.
Got(w, r) ==
    \E e \in Range(inbox[w]) :
        CASE req[r].op = "send_message" ->
                /\ e.type \in {"text", "image", "file"}
                /\ e.id = req[r].message
                /\ e.senderId = req[r].user
          [] req[r].op = "delete_message" ->
                e = MessageUpdate(req[r].chat, req[r].message)
          [] req[r].op = "block_user" ->
                e = BlockUpdate(req[r].user, req[r].target, TRUE)
          [] OTHER -> FALSE

\* The users request r fans out to.
Targets(r) ==
    IF req[r].op = "block_user" THEN {req[r].user, req[r].target}
    ELSE ParticipantIds(db, req[r].chat)

\* The request committed and went through its fan-out.
Delivered(r) ==
    /\ req[r].pc = "done"
    /\ req[r].result \in {Ok("message"), Ok("Message deleted"),
                         Http204("blocked")}

\* C6: a send_json that fails on one handle neither stops the delivery to the
\* other handles nor reaches the caller.  Once a fan-out of
\* send_personal_message or broadcast_block_update has ended, every handle of
\* a target user that is still open has the event, and the request ended with
\* its success result; once broadcast_user_status has ended, every open handle
\* of the other users has the status event and connect() returned normally.
C6_FailedSendSkipped ==
    /\ \A r \in Requests, w \in Staying :
          (Delivered(r) /\ UserOf(w) \in Targets(r) /\ session[w].open)
          => Got(w, r)
    /\ \A r \in Requests :
          (req[r].pc = "done" /\ req[r].result.status = 500)
          => /\ req[r].op = "block_user"
             /\ [blocker_id |-> req[r].user, blocked_id |-> req[r].target]
                    \in db.blocks
    /\ session[LateSocket].pc # "crashed"
    /\ session[LateSocket].pc = "receiving"
       => \A w \in Staying :
             (UserOf(w) # UserOf(LateSocket) /\ session[w].open)
             => StatusEvent(UserOf(LateSocket), TRUE,
                            session[LateSocket].transition) \in Range(inbox[w])

\* A send failed on the first handle of u1 and the second handle of u1 got the
\* message, and the connect broadcast went past a failed handle as well.
C6_Witness ==
    /\ ~session[1].open
    /\ session[3].open
    /\ \E r \in Requests :
          /\ Delivered(r)
          /\ req[r].op = "send_message"
          /\ Got(3, r)
          /\ ~Got(1, r)
    /\ session[LateSocket].pc = "receiving"
    /\ inbox[1] = <<>>
    /\ Len(inbox[3]) = 2

Position(q, e) == CHOOSE i \in 1..Len(q) : q[i] = e
Once(q, e) == Cardinality({i \in 1..Len(q) : q[i] = e}) = 1

\* C7: a handle never receives two events in another order than the one in
\* which they were handed to send_personal_message for the handle's user.
C7_HandleOrderPreserved ==
    \A w \in Sockets :
        \A i \in 1..Len(inbox[w]), j \in 1..Len(inbox[w]) :
            LET q == handed[UserOf(w)]
            IN (/\ i < j
                /\ PersonalEvent(inbox[w][i])
                /\ PersonalEvent(inbox[w][j])
                /\ Once(q, inbox[w][i])
                /\ Once(q, inbox[w][j]))
               => Position(q, inbox[w][i]) < Position(q, inbox[w][j])


\* ------------------------------------------------------- claims: recall
\* C10: delete_message by the sender on a message that is already deleted
\* returns success at once, leaves every row as it is and hands no event to
\* any handle: so for the step at which a delete_message, of the service or
\* of the route, gets the answer of its select while the committed row of
\* the message is deleted.
C10_DeleteIdempotent ==
    [][\A r \in Requests :
          (/\ req[r].pc \in {"idle", "authed"}
           /\ req'[r].op = "delete_message"
           /\ \E x \in db.messages : /\ x.id = req'[r].message
                                     /\ x.conversation_id = req'[r].chat
                                     /\ x.sender_id = req'[r].user
                                     /\ x.is_deleted)
          => /\ req'[r].pc = "done"
             /\ req'[r].result.status = 200
             /\ db' = db
             /\ inbox' = inbox
             /\ handed' = handed]_vars

\* ---------------------------------------------------- claims: reactions
Triple(x) == [message_id |-> x.message_id, user_id |-> x.user_id, emoji |-> x.emoji]

\* C8: in every reachable state at most one reaction row exists per
\* (message, user, emoji).
C8_OneRowPerTriple ==
    \A x \in db.reactions, y \in db.reactions :
        Triple(x) = Triple(y) => x = y

\* The rows of message m as a bag of triples.
ReactionsOf(d, m) ==
    [t \in {Triple(x) : x \in {y \in d.reactions : y.message_id = m}} |->
        Cardinality({x \in d.reactions : Triple(x) = t})]

\* C9: from every reachable state, two add_reaction calls in a row on one
\* (message, user, emoji) report opposite actions and leave the reactions of
\* the message as they were.
C9_ToggleRoundTrip ==
    \A m \in {1}, u \in Pair, e \in Emojis :
        \A o1 \in ToggleOutcomes(db, m, u, e) :
            \A o2 \in ToggleOutcomes(o1.db, m, u, e) :
                /\ o1.action # o2.action
                /\ ReactionsOf(o2.db, m) = ReactionsOf(db, m)


\* ------------------------------------------------ specification: read cursor
\* u1 sends into the direct conversation while u2 (and u3, who is not in it)
\* mark conversations as read and u1 and u2 list their chats.
NextRead ==
    \E r \in Requests :
        \/ SendLoad(r, "u1", 1, "hi", <<>>)
        \/ SendCheckBlock(r)
        \/ SendFlush(r)
        \/ SendCommit(r)
        \/ Refresh(r)
        \/ FanoutStep(r)
        \/ \E u \in {"u2", "u3"}, c \in ChatIds : MarkSelect(r, u, c)
        \/ MarkCommit(r)
        \/ \E u \in Pair : GetUserChats(r, u)
        \/ GetUserChatsBlockedBy(r)
        \/ BlockGetUser(r, "u1", "u2")
        \/ BlockSelect(r)
        \/ BlockCommit(r)

SpecRead == InitChat /\ [][NextRead]_vars

\* --------------------------------------------- specification: group creation
\* Users create groups from lists of at most MaxIds ids on an empty database.
MaxIds == 2

IdLists == UNION {[1..n -> UserIds] : n \in 0..MaxIds}

NextGroups ==
    \E r \in Requests :
        \/ \E u \in Users, ids \in IdLists : CreateGroupFlush(r, u, ids)
        \/ CreateGroupCommit(r)
        \/ CreateGroupReload(r)

SpecGroups == InitDirect /\ [][NextGroups]_vars

\* ---------------------------------------------------- properties: read cursor
\* The messages of conversation c that count as unread for reader u when the
\* reader's cursor is t: created after t and not sent by u.
UnreadSince(d, c, u, t) ==
    {m \in d.messages : m.conversation_id = c /\ m.created_at > t /\ m.sender_id # u}

\* The request r has just completed a mark_as_read with success.
MarkCompletes(r) ==
    /\ req[r].op = "mark_as_read"
    /\ req[r].pc = "commit"
    /\ req'[r].pc = "done"
    /\ req'[r].result.status = 200

\* C12: the unreadCount of every chat that get_user_chats returns to V is the
\* number of messages of that conversation created after V's last_read_at and
\* not sent by V; and when a mark_as_read of V completes, the count is the
\* number of such messages created after the instant the call took, so it is
\* 0 when no message was created since.
C12_UnreadCount ==
    [][\A r \in Requests :
          /\ (req[r].pc = "idle" /\ req'[r].op = "get_user_chats") =>
                \A chat \in req'[r].view :
                    \E p \in ParticipantRows(db, chat.id, req'[r].user) :
                        chat.unreadCount = Cardinality(
                            UnreadSince(db, chat.id, req'[r].user, p.last_read_at))
          /\ MarkCompletes(r) =>
                LET since == UnreadSince(db', req[r].chat, req[r].user, req[r].began)
                IN /\ UnreadCount(db', req[r].chat, req[r].user) = Cardinality(since)
                   /\ (since = {}) =>
                         \A chat \in UserChats(db', req[r].user, {}) :
                             (chat.id = req[r].chat) => chat.unreadCount = 0
      ]_vars

\* A message was unread for u2 in the direct conversation, u2's mark_as_read
\* has completed, and the chat list u2 got afterwards shows the count 0.
C12_Witness ==
    \E r \in Requests, q \in Requests :
        /\ req[r].op = "mark_as_read" /\ req[r].pc = "done"
        /\ req[r].result.status = 200 /\ req[r].chat = 1
        /\ UnreadSince(db, 1, "u2", PyTime(1)) # {}
        /\ req[q].op = "get_user_chats" /\ req[q].pc = "done"
        /\ \E chat \in req[q].view : chat.id = 1 /\ chat.unreadCount = 0

\* C13: the last_read_at of a participant row never decreases.
C13_CursorMonotonic ==
    [][\A p \in db.participants : \A q \in db'.participants :
          (p.conversation_id = q.conversation_id /\ p.user_id = q.user_id)
             => q.last_read_at >= p.last_read_at]_vars

\* ------------------------------------------------- properties: group creation
\* The create_group_chat requests that returned a group.
Created(r) ==
    /\ req[r].op = "create_group_chat"
    /\ req[r].pc = "done"
    /\ req[r].result.status = 200

\* C16: after create_group_chat the creator's row has role admin and every
\* other participant row of the group has role member.
C16_CreatorAdminOthersMember ==
    \A r \in Requests :
        Created(r) =>
            /\ \E p \in ParticipantRows(db, req[r].chat, req[r].user) :
                  p.role = "admin"
            /\ \A p \in db.participants :
                  (p.conversation_id = req[r].chat) =>
                      (p.role = IF p.user_id = req[r].user THEN "admin" ELSE "member")

\* A group was created from a list that names the creator and another user.
C16_Witness ==
    \E r \in Requests :
        /\ Created(r)
        /\ req[r].user \in Range(req[r].ids)
        /\ Range(req[r].ids) \ {req[r].user} # {}
        /\ Cardinality(ParticipantIds(db, req[r].chat)) = 2

\* C17: create_group_chat on a list of existing users succeeds whether or not
\* the list repeats an id or names the creator, and leaves exactly one
\* participant row per distinct user.
C17_DuplicatesAccepted ==
    \A r \in Requests :
        (/\ req[r].op = "create_group_chat"
         /\ req[r].pc = "done"
         /\ Range(req[r].ids) \subseteq Users)
        => /\ req[r].result.status = 200
           /\ ParticipantIds(db, req[r].chat) = {req[r].user} \cup Range(req[r].ids)
           /\ \A u \in ParticipantIds(db, req[r].chat) :
                 Cardinality(ParticipantRows(db, req[r].chat, u)) = 1

\* ----------------------------------------------------- specification: kick
\* u1 (admin of the group) and u2 (member) kick users from the conversations
\* of the fixture, and the users list their chats.
NextKick ==
    \E r \in Requests :
        \/ \E a \in Pair, c \in ChatIds, t \in Users : KickLoad(r, a, c, t)
        \/ KickCommit(r)
        \/ Refresh(r)
        \/ FanoutStep(r)
        \/ \E u \in Users : GetUserChats(r, u)
        \/ GetUserChatsBlockedBy(r)

SpecKick == InitChat /\ [][NextKick]_vars

\* ----------------------------------------------------------- properties: kick
\* The request r is a kick_member that has committed.
Kicked(r) ==
    /\ req[r].op = "kick_member"
    /\ req[r].pc \in {"refresh", "fanout", "done"}
    /\ req[r].result = Ok("User kicked")

\* Event e, and after it event f, are in the sequence q.
InOrder(q, e, f) ==
    \E i \in 1..Len(q), j \in 1..Len(q) : i < j /\ q[i] = e /\ q[j] = f

\* C14: after a successful kick_member(A, C, B) every handle of B has
\* user_kicked and neither the system message of the kick nor member_removed
\* naming B; every handle of the remaining participants has the system message
\* 'A removed B' and, after it, member_removed naming B; and a get_user_chats
\* of B that runs after the kick committed does not list C.
C14_KickEvents ==
    [][\A r \in Requests :
          /\ (Kicked(r) /\ req'[r].pc = "done") =>
                LET c   == req[r].chat
                    b   == req[r].target
                    sys == [type |-> "system", id |-> req[r].message, chatId |-> c,
                            senderId |-> NoUser,
                            text |-> req[r].user \o " removed " \o b]
                IN /\ \A w \in Sockets :
                        (UserOf(w) = b) =>
                            /\ GroupEvent("user_kicked", c, b) \in Range(inbox'[w])
                            /\ sys \notin Range(inbox'[w])
                            /\ GroupEvent("member_removed", c, b) \notin Range(inbox'[w])
                   /\ \A w \in Sockets :
                        (UserOf(w) \in req[r].loaded \ {b}) =>
                            /\ InOrder(inbox'[w], sys,
                                       GroupEvent("member_removed", c, b))
                            /\ GroupEvent("user_kicked", c, b) \notin Range(inbox'[w])
          /\ \A q \in Requests :
                (/\ Kicked(r)
                 /\ req[q].pc = "idle"
                 /\ req'[q].op = "get_user_chats"
                 /\ req'[q].user = req[r].target)
                => \A chat \in req'[q].view : chat.id # req[r].chat
      ]_vars

\* u1 kicked u2 from the group, the fan-out ended (u2's handle has
\* user_kicked, a handle of u1 has member_removed), and u2 listed the chats
\* afterwards.
C14_Witness ==
    \E r \in Requests, q \in Requests :
        /\ Kicked(r) /\ req[r].pc = "done" /\ req[r].target = "u2"
        /\ req[q].op = "get_user_chats" /\ req[q].pc = "done"
        /\ req[q].user = "u2"
        /\ \A chat \in req[q].view : chat.id # 2
        /\ \E w \in Sockets :
              UserOf(w) = "u2" /\ GroupEvent("user_kicked", 2, "u2") \in Range(inbox[w])
        /\ \E w \in Sockets : GroupEvent("member_removed", 2, "u2") \in Range(inbox[w])

\* C15: kick_member fails with 403 when the caller is a participant of the
\* group but not an admin, with 404 when an admin names a user who is not a
\* participant, with 400 when an admin names himself; a kick_member that fails
\* removes no row, records no message and sends no event.
C15_KickFailures ==
    [][\A r \in Requests :
          (req[r].pc = "idle" /\ req'[r].op = "kick_member") =>
              LET a == req'[r].user
                  c == req'[r].chat
                  t == req'[r].target
                  group == IsGroup(db, c) /\ a \in ParticipantIds(db, c)
                  admin == group /\ RoleOf(db, c, a) = "admin"
              IN /\ (group /\ ~admin) => req'[r].result.status = 403
                 /\ (admin /\ t \notin ParticipantIds(db, c))
                       => req'[r].result.status = 404
                 /\ (admin /\ t = a) => req'[r].result.status = 400
                 /\ (req'[r].result.status >= 400) =>
                       /\ req'[r].pc = "done"
                       /\ db' = db /\ inbox' = inbox /\ handed' = handed
      ]_vars

\* Each kind of failure has happened: a member tried to kick, an admin named
\* a user who had been kicked before, and an admin named himself.
C15_Witness ==
    \E r \in Requests :
        /\ req[r].op = "kick_member" /\ req[r].pc = "done"
        /\ req[r].result = HttpError(400, "Cannot kick self")
        /\ req[r].user = req[r].target

\* ---------------------------------------------------- specification: leave
\* u1 (the admin) and u2 leave the conversations of the fixture, and u1 and
\* u3 read the history of the group.
NextLeave ==
    \E r \in Requests :
        \/ \E u \in Pair, c \in ChatIds : LeaveLoad(r, u, c)
        \/ LeaveSelect(r)
        \/ LeaveCommitRow(r)
        \/ LeaveCommitMessage(r)
        \/ LeaveRemaining(r)
        \/ Refresh(r)
        \/ FanoutStep(r)
        \/ \E u \in {"u1", "u3"} : GetMessagesLoad(r, u, 2, "")
        \/ GetMessagesSelect(r)

SpecLeave == InitChat /\ [][NextLeave]_vars

\* ---------------------------------------------------------- properties: leave
\* The system message that the leave_group of request r recorded.
LeftMessage(r) ==
    [id |-> req[r].message, chatId |-> req[r].chat, senderId |-> NoUser,
     text |-> req[r].user \o " has left the group", type |-> "system",
     attachments |-> {}, reactions |-> {}]

\* C20: a leave_group(U, C) that succeeds removes U's participant row, then
\* records one system message with no sender and the content 'U has left the
\* group' in C (the only row its steps add), sends it to every handle of the
\* participants that remain when it selects them and to no handle of U, and the message is in the
\* history that get_messages returns from then on.
C20_LeaveRecordsMessage ==
    [][\A r \in Requests :
          /\ (req[r].op = "leave_group" /\ req'[r] # req[r]) =>
                /\ (req[r].pc = "delete") =>
                      /\ db'.participants =
                            db.participants \ ParticipantRows(db, req[r].chat, req[r].user)
                      /\ db'.messages = db.messages
                /\ (req[r].pc = "message" /\ req'[r].pc = "refresh") =>
                      /\ ParticipantRows(db, req[r].chat, req[r].user) = {}
                      /\ db'.participants = db.participants
                      /\ \E m \in db'.messages :
                            /\ db'.messages = db.messages \cup {m}
                            /\ m \notin db.messages
                            /\ m.id = req'[r].message
                            /\ m.conversation_id = req[r].chat
                            /\ m.sender_id = NoUser
                            /\ m.type = "system"
                            /\ m.content = req[r].user \o " has left the group"
                /\ (req[r].pc \notin {"delete", "message"}) => db' = db
                /\ (req[r].pc = "remaining") =>
                      /\ req'[r].loaded = ParticipantIds(db, req[r].chat)
                      /\ req[r].user \notin req'[r].loaded
                /\ (req'[r].pc = "done" /\ req'[r].result.status = 200) =>
                      LET ev == [type |-> "system", id |-> req[r].message,
                                 chatId |-> req[r].chat, senderId |-> NoUser,
                                 text |-> req[r].user \o " has left the group"]
                      IN /\ req[r].pc = "fanout"
                         /\ \A w \in Sockets :
                               ev \in Range(inbox'[w]) <=> UserOf(w) \in req[r].loaded
                         /\ \A w \in Sockets :
                               (UserOf(w) = req[r].user) => ev \notin Range(inbox'[w])
          /\ \A q \in Requests :
                (/\ req[r].op = "leave_group"
                 /\ req[r].pc \in {"refresh", "remaining", "fanout", "done"}
                 /\ req[r].result.status \in {0, 200}
                 /\ req[q].op = "get_messages"
                 /\ req'[q].pc = "done"
                 /\ req[q].pc = "select"
                 /\ req[q].chat = req[r].chat)
                => LeftMessage(r) \in Range(req'[q].history)
      ]_vars

\* u2 left the group, the fan-out ended with the message on a handle of u1,
\* and u1 read the history afterwards.
C20_Witness ==
    \E r \in Requests, q \in Requests :
        /\ req[r].op = "leave_group" /\ req[r].pc = "done"
        /\ req[r].user = "u2" /\ req[r].result = Ok("Left group")
        /\ \E w \in Sockets : UserOf(w) = "u1" /\ inbox[w] # <<>>
        /\ req[q].op = "get_messages" /\ req[q].pc = "done"
        /\ LeftMessage(r) \in Range(req[q].history)

\* ------------------------------------------------- specification: dissolve
\* u1 (the admin) and u2 dissolve the conversations of the fixture while u2
\* sends into the group.
NextDissolve ==
    \E r \in Requests :
        \/ \E a \in Pair, c \in ChatIds : DeleteGroupLoad(r, a, c)
        \/ DeleteGroupNotify(r)
        \/ DeleteGroupCommit(r)
        \/ SendLoad(r, "u2", 2, "hi", <<>>)
        \/ SendCheckBlock(r)
        \/ SendFlush(r)
        \/ SendCommit(r)
        \/ Refresh(r)
        \/ FanoutStep(r)

SpecDissolve == InitChat /\ [][NextDissolve]_vars

\* -------------------------------------------------- specification: members
\* u3 is not in the group; u1 (the admin) and u2 add users to it.
InitMembers ==
    /\ active_connections = RegisterAll(NumSockets, Sockets)
    /\ session = [w \in Sockets |-> Receiving]
    /\ inbox = [w \in Sockets |-> <<>>]
    /\ db = [FixtureDb EXCEPT !.participants = @ \ ParticipantRows(FixtureDb, 2, "u3")]
    /\ req = [r \in Requests |-> IdleRequest]
    /\ handed = [u \in Users |-> <<>>]

NextMembers ==
    \E r \in Requests :
        \/ \E a \in Pair, ids \in IdLists : AddLoad(r, a, 2, ids)
        \/ AddCommitRows(r)
        \/ AddReload(r)
        \/ AddCommitMessage(r)
        \/ Refresh(r)
        \/ FanoutStep(r)

SpecMembers == InitMembers /\ [][NextMembers]_vars

\* ------------------------------------------------------- properties: dissolve
\* C19: a delete_group by a participant who is not the admin fails with 403 and
\* changes nothing; the admin's delete_group has handed group_dissolved for
\* every participant it loaded, and every handle of theirs has it, before it
\* removes a row, and when it completes no participant row and no message row
\* of the conversation exists; a handle has group_dissolved only for a
\* conversation that is being dissolved or no longer exists.
C19_DissolveNotifiesFirst ==
    [][/\ \A r \in Requests :
             /\ (req[r].pc = "idle" /\ req'[r].op = "delete_group") =>
                   LET a == req'[r].user
                       c == req'[r].chat
                   IN (/\ IsGroup(db, c)
                       /\ a \in ParticipantIds(db, c)
                       /\ RoleOf(db, c, a) # "admin")
                      => /\ req'[r].pc = "done"
                         /\ req'[r].result.status = 403
                         /\ db' = db /\ inbox' = inbox /\ handed' = handed
             /\ (req[r].op = "delete_group" /\ req'[r] # req[r]) =>
                   /\ (db' # db) =>
                         /\ \A u \in req[r].loaded :
                               Dissolved(req[r].chat) \in Range(handed[u])
                         /\ \A w \in Sockets :
                               (UserOf(w) \in req[r].loaded) =>
                                   Dissolved(req[r].chat) \in Range(inbox[w])
                   /\ (req'[r].pc = "done" /\ req'[r].result.status = 200) =>
                         /\ \A p \in db'.participants : p.conversation_id # req[r].chat
                         /\ \A m \in db'.messages : m.conversation_id # req[r].chat
                         /\ \A k \in db'.conversations : k.id # req[r].chat
       /\ \A r \in Requests :
             (req'[r].op = "delete_group" /\ req'[r].pc = "done"
              /\ req'[r].result.status = 200) =>
                 /\ \A p \in db'.participants : p.conversation_id # req'[r].chat
                 /\ \A m \in db'.messages : m.conversation_id # req'[r].chat
       /\ \A w \in Sockets, c \in ChatIds :
             (Dissolved(c) \in Range(inbox'[w])) =>
                 \/ \A k \in db'.conversations : k.id # c
                 \/ \E r \in Requests :
                       /\ req'[r].op = "delete_group"
                       /\ req'[r].chat = c
                       /\ req'[r].pc \in {"notify", "delete"}
      ]_vars

\* The admin dissolved the group after a message had been sent into it: the
\* handles of u1 and u2 have group_dissolved and the conversation is gone.
C19_Witness ==
    \E r \in Requests, q \in Requests :
        /\ req[r].op = "delete_group" /\ req[r].pc = "done"
        /\ req[r].result.status = 200
        /\ req[q].op = "send_message" /\ req[q].result = Ok("message")
        /\ \A w \in Sockets : Dissolved(2) \in Range(inbox[w])
        /\ \A k \in db.conversations : k.id # 2
        /\ db.next_message > FixtureDb.next_message

\* -------------------------------------------------------- properties: members
\* C18: an add_members of the admin in which every listed id is already a
\* participant changes no row and sends no event; otherwise its insert adds
\* exactly the listed users that were missing, each with the role member; an
\* add_members of a participant who is not the admin fails with 403 and
\* changes nothing.
C18_AddsExactlyMissing ==
    [][\A r \in Requests :
          /\ (req[r].pc = "idle" /\ req'[r].op = "add_members") =>
                LET a == req'[r].user
                    c == req'[r].chat
                    member == IsGroup(db, c) /\ a \in ParticipantIds(db, c)
                IN /\ (member /\ RoleOf(db, c, a) # "admin") =>
                         /\ req'[r].pc = "done"
                         /\ req'[r].result.status = 403
                   /\ (member /\ RoleOf(db, c, a) = "admin"
                       /\ Range(req'[r].ids) \subseteq ParticipantIds(db, c)) =>
                         /\ req'[r].pc = "done"
                         /\ req'[r].result.status = 200
                   /\ db' = db /\ inbox' = inbox /\ handed' = handed
          /\ (req[r].op = "add_members" /\ req[r].pc = "insert"
              /\ req'[r] # req[r]
              /\ Range(req[r].ids) \subseteq Users) =>
                /\ req'[r].result.status \in {0, 200}
                /\ db'.participants \ db.participants =
                      {p \in db'.participants :
                          /\ p.conversation_id = req[r].chat
                          /\ p.user_id \in Range(req[r].ids) \ ParticipantIds(db, req[r].chat)}
                /\ \A u \in Range(req[r].ids) :
                      \E p \in ParticipantRows(db', req[r].chat, u) :
                          (u \notin ParticipantIds(db, req[r].chat)) => p.role = "member"
      ]_vars

\* -------------------------------------------------- specification: history
\* The group holds a message of u2 that was soft-deleted (it had an
\* attachment).  Messages are deleted, sent and reacted to, members are
\* kicked, leave and are added, the group is dissolved, and u1 reads the
\* histories.
InitHistory ==
    /\ active_connections = RegisterAll(NumSockets, Sockets)
    /\ session = [w \in Sockets |-> Receiving]
    /\ inbox = [w \in Sockets |-> <<>>]
    /\ db = [FixtureDb EXCEPT
                !.messages = @ \cup
                    {[id |-> FixtureDb.next_message, conversation_id |-> 2,
                      sender_id |-> "u2", content |-> NoContent, type |-> "image",
                      is_deleted |-> TRUE, created_at |-> DbTime(FixtureDb.clock)]},
                !.uploads = @ + 1,
                !.next_message = @ + 1]
    /\ req = [r \in Requests |-> IdleRequest]
    /\ handed = [u \in Users |-> <<>>]

NextHistory ==
    \E r \in Requests :
        \/ \E u \in Pair, c \in ChatIds, m \in 1..FixtureDb.next_message :
              DeleteSelect(r, u, c, m)
        \/ DeleteCommit(r)
        \/ SendLoad(r, "u1", 2, "hi", <<SmallImage>>)
        \/ SendCheckBlock(r)
        \/ SendFlush(r)
        \/ ProcessAttachments(r)
        \/ SendCommit(r)
        \/ \E c \in ChatIds, m \in 1..FixtureDb.next_message :
              ReactLoad(r, "u1", c, m, "like")
        \/ ReactFindMessage(r)
        \/ ReactFindReaction(r)
        \/ ReactCommit(r)
        \/ ReactCount(r)
        \/ MarkSelect(r, "u2", 2)
        \/ MarkCommit(r)
        \/ KickLoad(r, "u1", 2, "u2")
        \/ KickCommit(r)
        \/ LeaveLoad(r, "u2", 2)
        \/ LeaveSelect(r)
        \/ LeaveCommitRow(r)
        \/ LeaveCommitMessage(r)
        \/ LeaveRemaining(r)
        \/ AddLoad(r, "u1", 2, <<"u2">>)
        \/ AddCommitRows(r)
        \/ AddReload(r)
        \/ AddCommitMessage(r)
        \/ DeleteGroupLoad(r, "u1", 2)
        \/ DeleteGroupNotify(r)
        \/ DeleteGroupCommit(r)
        \/ \E c \in ChatIds : GetMessagesLoad(r, "u1", c, "")
        \/ GetMessagesSelect(r)
        \/ Refresh(r)
        \/ FanoutStep(r)

SpecHistory == InitHistory /\ [][NextHistory]_vars

FormTexts == {NoContent, "", "hi"}

NextOutsider ==
    \E r \in Requests :
        \/ KickLoad(r, "u1", 2, "u2")
        \/ KickCommit(r)
        \/ LeaveLoad(r, "u2", 2)
        \/ LeaveSelect(r)
        \/ LeaveCommitRow(r)
        \/ LeaveCommitMessage(r)
        \/ LeaveRemaining(r)
        \/ \E u \in {"u2", "u3"}, c \in ChatIds, text \in FormTexts,
              files \in {<<>>, <<SmallImage>>} :
              SendLoad(r, u, c, text, files)
        \/ SendCheckBlock(r)
        \/ SendFlush(r)
        \/ ProcessAttachments(r)
        \/ SendCommit(r)
        \/ Refresh(r)
        \/ FanoutStep(r)

SpecOutsider == InitChat /\ [][NextOutsider]_vars

\* ------------------------------------------------ properties: rejected sends
\* C21: a send_message by a user who has no participant row in the
\* conversation when get_chat_details runs (he never had one, he left, or he
\* was kicked) ends with 403 "Not a participant"; it creates no row and sends
\* no event.
C21_OutsiderSendForbidden ==
    [][\A r \in Requests :
          (/\ req[r].pc = "idle"
           /\ req'[r].op = "send_message"
           /\ \E k \in db.conversations : k.id = req'[r].chat
           /\ \A p \in db.participants :
                 ~(p.conversation_id = req'[r].chat /\ p.user_id = req'[r].user))
          => /\ req'[r].pc = "done"
             /\ req'[r].result = HttpError(403, "Not a participant")
             /\ db' = db
             /\ inbox' = inbox
             /\ handed' = handed]_vars

\* C21's case: u2 was kicked from the group by one request, and the
\* send_message of u2 into the group by the other was refused.
C21_Witness ==
    \E q \in Requests, r \in Requests :
        /\ Kicked(q) /\ req[q].pc = "done" /\ req[q].target = "u2"
        /\ req[r].op = "send_message" /\ req[r].pc = "done"
        /\ req[r].user = "u2" /\ req[r].chat = 2
        /\ req[r].result = HttpError(403, "Not a participant")
        /\ \A m \in db.messages : m.sender_id # "u2"

\* C22: a send_message that reaches the empty check with no text (absent or
\* the empty string) and no attachment ends there; the sender not being
\* blocked, it ends with 400 "Message must have text or attachments".  It
\* creates no row and sends no event.
C22_EmptySendRejected ==
    [][\A r \in Requests :
          (/\ req[r].op = "send_message"
           /\ req[r].pc = "check_block"
           /\ req'[r] # req[r]
           /\ req[r].text \in {NoContent, ""}
           /\ req[r].files = <<>>)
          => /\ req'[r].pc = "done"
             /\ req'[r].result.status \in {400, 403}
             /\ ~IsBlocked(db, req[r].loaded, req[r].user)
                   => req'[r].result =
                         HttpError(400, "Message must have text or attachments")
             /\ db' = db
             /\ inbox' = inbox
             /\ handed' = handed]_vars

\* C22's case: both requests were sends of a participant with nothing to
\* send, and both were refused; no message was added to the one of the
\* fixture.
C22_Witness ==
    \E q \in Requests, r \in Requests :
        /\ q # r
        /\ \A x \in {q, r} :
              /\ req[x].op = "send_message" /\ req[x].pc = "done"
              /\ req[x].result =
                    HttpError(400, "Message must have text or attachments")
        /\ Cardinality(db.messages) = 1

\* --------------------------------------------------- specification: blocks
\* The users block and unblock each other (and ids of no user) while the
\* clients of the registered websockets may go away.
NextBlocks ==
    \/ \E r \in Requests :
          \/ \E u \in Users, t \in UserIds : BlockGetUser(r, u, t)
          \/ BlockSelect(r)
          \/ BlockCommit(r)
          \/ \E u \in Users, t \in UserIds : UnblockSelect(r, u, t)
          \/ UnblockCommit(r)
          \/ FanoutStep(r)
    \/ \E w \in Sockets : ClientClose(w)

SpecBlocks == InitChat /\ [][NextBlocks]_vars

\* ------------------------------------------------------ properties: blocks
\* The row of the pair of request r.
BlockRow(rq) == [blocker_id |-> rq.user, blocked_id |-> rq.target]

\* The events the broadcast of a request is about to send, as a set.
Emitted(rq) == {rq.out[i].ev : i \in 1..Len(rq.out)}

\* C23: a block_user that finds the pair blocked and an unblock_user that
\* finds it not blocked return 204 at once: the Block rows stay as they are
\* and nothing is sent.  A block_user that adds the row and an unblock_user
\* that deletes it make one broadcast_block_update: one user_block_update
\* event, with the new state of the pair, for the blocker and the blocked
\* user.
C23_BlockIdempotent ==
    [][\A r \in Requests :
          /\ (/\ req[r].op = "block_user"
              /\ req[r].pc = "select"
              /\ req'[r] # req[r]
              /\ BlockRow(req[r]) \in db.blocks)
             => /\ req'[r].pc = "done"
                /\ req'[r].result.status = 204
                /\ db' = db /\ inbox' = inbox /\ handed' = handed
          /\ (/\ req[r].pc = "idle"
              /\ req'[r].op = "unblock_user"
              /\ BlockRow(req'[r]) \notin db.blocks)
             => /\ req'[r].pc = "done"
                /\ req'[r].result.status = 204
                /\ db' = db /\ inbox' = inbox /\ handed' = handed
          /\ (/\ req[r].pc \in {"insert", "delete"}
              /\ req'[r] # req[r]
              /\ db'.blocks # db.blocks)
             => /\ req'[r].pc = "fanout"
                /\ req'[r].result.status = 204
                /\ Emitted(req'[r]) =
                      {BlockUpdate(req[r].user, req[r].target,
                                   req[r].op = "block_user")}
                /\ db'.blocks =
                      IF req[r].op = "block_user"
                      THEN db.blocks \cup {BlockRow(req[r])}
                      ELSE db.blocks \ {BlockRow(req[r])}
      ]_vars

\* C23's case: u1 blocked u2 with one request, and the second block_user of
\* u1 for u2 returned without a change; the handles got one event.
C23_Witness ==
    \E q \in Requests, r \in Requests :
        /\ req[q].op = "block_user" /\ req[q].pc = "done"
        /\ req[q].result = Http204("blocked")
        /\ req[r].op = "block_user" /\ req[r].pc = "done"
        /\ req[r].result = Http204("already blocked")
        /\ req[q].user = "u1" /\ req[q].target = "u2"
        /\ req[r].user = "u1" /\ req[r].target = "u2"
        /\ db.blocks = {[blocker_id |-> "u1", blocked_id |-> "u2"]}
        /\ inbox[2] = <<BlockUpdate("u1", "u2", TRUE)>>

\* C24: a user_block_update is handed to, and received by, the handles of
\* its blocker and of its blocked user only.
C24_BlockUpdateOnlyToParties ==
    /\ \A w \in Sockets : \A i \in 1..Len(inbox[w]) :
          inbox[w][i].type = "user_block_update"
          => UserOf(w) \in {inbox[w][i].blockerId, inbox[w][i].blockedId}
    /\ \A u \in Users : \A i \in 1..Len(handed[u]) :
          handed[u][i].type = "user_block_update"
          => u \in {handed[u][i].blockerId, handed[u][i].blockedId}

\* C24's case: u1 blocked u3 and the broadcast ended; both handles of u1 have
\* the event and the handle of u2, still open, has nothing.
C24_Witness ==
    \E r \in Requests :
        /\ req[r].op = "block_user" /\ req[r].pc = "done"
        /\ req[r].user = "u1" /\ req[r].target = "u3"
        /\ req[r].result = Http204("blocked")
        /\ inbox[1] = <<BlockUpdate("u1", "u3", TRUE)>>
        /\ inbox[3] = <<BlockUpdate("u1", "u3", TRUE)>>
        /\ session[2].open
        /\ inbox[2] = <<>>

\* ------------------------------------------------ specification: handshake
\* Every websocket arrives with one of the tokens of its client; the ones
\* that pass connect, and the clients may go away at any time.
InitHandshake ==
    /\ active_connections = EmptyRegistry
    /\ session = [w \in Sockets |-> [NewSession EXCEPT !.pc = "handshake"]]
    /\ inbox = [w \in Sockets |-> <<>>]
    /\ db = EmptyDb
    /\ req = [r \in Requests |-> IdleRequest]
    /\ handed = [u \in Users |-> <<>>]

NextHandshake ==
    \E w \in Sockets :
        \/ \E token \in TokensOf(w) : WsAuthenticate(w, token)
        \/ WsLookup(w)
        \/ WsConnect(w)
        \/ WsAcceptFails(w)
        \/ WsBroadcastStep(w)
        \/ WsDisconnect(w)
        \/ ClientClose(w)

SpecHandshake == InitHandshake /\ [][NextHandshake]_vars

\* --------------------------------------------------- properties: handshake
\* Websocket w is in a list of the registry.
Registered(w) == \E u \in Users : w \in Range(active_connections.lists[u])

\* The endpoint of w has not passed the token checks, or has failed them.
Unauthenticated(w) == session[w].pc \in {"handshake", "lookup", "rejected"}

\* C25: the endpoint of a websocket whose token is absent, is not a JWT of the
\* server or has expired ends at the token check, and the one of a websocket
\* whose token names no user row ends after the select: the websocket is
\* closed with code 1008, and the step changes neither the registry nor what
\* any websocket received.  A websocket that has not passed these checks is
\* in no list of the registry.
C25_BadTokenRejected ==
    /\ [](\A w \in Sockets : Unauthenticated(w) => ~Registered(w))
    /\ [][\A w \in Sockets :
             /\ (/\ session[w].pc = "handshake"
                 /\ session'[w].pc # "handshake"
                 /\ session'[w].token.form # "signed")
                => /\ session'[w].pc = "rejected"
                   /\ session'[w].code = 1008
                   /\ ~session'[w].open
                   /\ active_connections' = active_connections
                   /\ inbox' = inbox
             /\ (/\ session[w].pc = "lookup"
                 /\ session'[w].pc # "lookup"
                 /\ session[w].token.sub \notin Users)
                => /\ session'[w].pc = "rejected"
                   /\ session'[w].code = 1008
                   /\ ~session'[w].open
                   /\ active_connections' = active_connections
                   /\ inbox' = inbox
       ]_vars

\* C25's case: websocket 1 came with an expired token of u1 and websocket 2
\* with a token of a user that does not exist, both were closed with 1008;
\* websocket 3 came with a good token of u1 and is connected, and nobody
\* received a status event.
C25_Witness ==
    /\ session[1] = Rejected([form |-> "expired", sub |-> "u1"])
    /\ session[2] = Rejected([form |-> "signed", sub |-> "nobody"])
    /\ session[3].pc = "receiving"
    /\ active_connections.lists = [u \in Users |-> IF u = "u1" THEN <<3>> ELSE <<>>]
    /\ \A w \in Sockets : inbox[w] = <<>>

\* ------------------------------------- specification: direct conversations
\* u1 has created the group 1 with u2 and nobody is connected.  The
\* users open direct conversations with each other (with themselves, with
\* ids of no user), and u1 and u2 call the group operations on the group and
\* on the direct conversation.
GroupFirstDb ==
    [EmptyDb EXCEPT
        !.conversations = {[id |-> 1, is_group |-> TRUE]},
        !.participants = Range(GroupRows(EmptyDb, 1, "u1", <<"u2">>)),
        !.next_conversation = 2,
        !.clock = 1]

InitShape ==
    /\ active_connections = EmptyRegistry
    /\ session = [w \in Sockets |-> NewSession]
    /\ inbox = [w \in Sockets |-> <<>>]
    /\ db = GroupFirstDb
    /\ req = [r \in Requests |-> IdleRequest]
    /\ handed = [u \in Users |-> <<>>]

NextShape ==
    \E r \in Requests :
        \/ \E a \in Users, b \in UserIds : CreateChatGetUser(r, a, b)
        \/ CreateChatLookup(r)
        \/ CreateChatFlush(r)
        \/ CreateChatCommit(r)
        \/ CreateChatReload(r)
        \/ \E a \in Pair, b \in UserIds : CreateNewChat(r, a, b)
        \/ \E u \in Pair, c \in {1, 2} : LeaveLoad(r, u, c)
        \/ LeaveSelect(r)
        \/ LeaveCommitRow(r)
        \/ LeaveCommitMessage(r)
        \/ LeaveRemaining(r)
        \/ \E a \in Pair, c \in {1, 2}, t \in Pair : KickLoad(r, a, c, t)
        \/ KickCommit(r)
        \/ \E a \in Pair, c \in {1, 2} : AddLoad(r, a, c, <<"u3">>)
        \/ AddCommitRows(r)
        \/ AddReload(r)
        \/ AddCommitMessage(r)
        \/ \E a \in Pair, c \in {1, 2} : DeleteGroupLoad(r, a, c)
        \/ DeleteGroupNotify(r)
        \/ DeleteGroupCommit(r)
        \/ Refresh(r)
        \/ FanoutStep(r)

SpecShape == InitShape /\ [][NextShape]_vars

\* ------------------------------------- properties: direct conversations
GroupOps == {"leave_group", "kick_member", "add_members", "delete_group"}

\* C26: every non-group conversation has exactly two participant rows, of
\* two different users.  A leave_group, kick_member, add_members or
\* delete_group of a participant of a non-group conversation ends at once
\* with 400 and changes no row, and a create_chat of a user with himself ends
\* with 400.
C26_DirectHasTwo ==
    /\ [](\A k \in db.conversations :
            ~k.is_group =>
               /\ Cardinality({p \in db.participants :
                                  p.conversation_id = k.id}) = 2
               /\ Cardinality(ParticipantIds(db, k.id)) = 2)
    /\ [][\A r \in Requests :
             /\ (/\ req[r].pc = "idle"
                 /\ req'[r].op \in GroupOps
                 /\ [id |-> req'[r].chat, is_group |-> FALSE] \in db.conversations
                 /\ req'[r].user \in ParticipantIds(db, req'[r].chat))
                => /\ req'[r].pc = "done"
                   /\ req'[r].result.status = 400
                   /\ db' = db /\ inbox' = inbox /\ handed' = handed
             /\ (/\ req[r].pc = "idle"
                 /\ req'[r].op = "create_chat"
                 /\ req'[r].user = req'[r].target)
                => /\ req'[r].pc = "done"
                   /\ req'[r].result.status = 400
                   /\ db' = db
       ]_vars

\* C26's case: u1 opened the direct conversation 2 with u2, and the
\* leave_group of u2 on it was refused; its two rows are there.
C26_Witness ==
    \E q \in Requests, r \in Requests :
        /\ req[q].op = "create_chat" /\ req[q].pc = "done"
        /\ req[q].user = "u1" /\ req[q].target = "u2" /\ req[q].chat = 2
        /\ req[r].op = "leave_group" /\ req[r].pc = "done"
        /\ req[r].user = "u2" /\ req[r].chat = 2
        /\ req[r].result = HttpError(400, "Cannot leave a 1-on-1 chat")
        /\ ParticipantIds(db, 2) = {"u1", "u2"}

\* C27: a create_chat of a for b that runs when one non-group conversation
\* with a and b as participants exists, whichever of the two opened it,
\* returns that conversation and writes nothing.
C27_FindOrCreateIdempotent ==
    [][\A r \in Requests :
          (/\ req[r].op = "create_chat"
           /\ req[r].pc = "lookup"
           /\ req'[r] # req[r])
          => \A k \in db.conversations :
                (/\ ~k.is_group
                 /\ {req'[r].user, req'[r].target} \subseteq ParticipantIds(db, k.id)
                 /\ \A j \in db.conversations :
                       (~j.is_group /\ j # k)
                       => ~({req'[r].user, req'[r].target}
                               \subseteq ParticipantIds(db, j.id)))
                => /\ req'[r].pc = "done"
                   /\ req'[r].result = Ok("chat")
                   /\ req'[r].chat = k.id
                   /\ db' = db
      ]_vars

\* ------------------------------------------- properties: delete by another
\* C28: a delete_message of a message that exists and was sent by somebody
\* else ends with 404 "Message not found or not owned by user": no row
\* changes (is_deleted, content and the attachments stay) and nothing is
\* sent.
C28_OnlySenderDeletes ==
    [][\A r \in Requests :
          (/\ req[r].pc = "idle"
           /\ req'[r].op = "delete_message"
           /\ \E x \in db.messages :
                 x.id = req'[r].message /\ x.sender_id # req'[r].user)
          => /\ req'[r].pc = "done"
             /\ req'[r].result =
                   HttpError(404, "Message not found or not owned by user")
             /\ db' = db
             /\ inbox' = inbox
             /\ handed' = handed]_vars

\* C28's case: u2, a participant of conversation 1, asked to delete message
\* 1 of u1 and was refused; the message has its content and its attachment.
C28_Witness ==
    \E r \in Requests :
        /\ req[r].op = "delete_message" /\ req[r].pc = "done"
        /\ req[r].user = "u2" /\ req[r].chat = 1 /\ req[r].message = 1
        /\ req[r].result = HttpError(404, "Message not found or not owned by user")
        /\ \E x \in db.messages :
              x.id = 1 /\ ~x.is_deleted /\ x.content = "hi" /\ x.sender_id = "u1"
        /\ \E a \in db.attachments : a.message_id = 1

\* ------------------------------------------- specification: message types
\* Only the websocket of u2 is connected.  u1 sends messages into the direct
\* conversation of the fixture, with or without text, with up to MaxFiles
\* attachments of the kinds above.
MaxFiles == 2

\* The uploads: a PNG, a PNG whose part header spells the type in capitals,
\* a bitmap image, a document, and a part without a Content-Type header.
Uploads ==
    {[content_type |-> ct, big |-> FALSE] :
        ct \in {"image/png", "IMAGE/PNG", "image/bmp", "application/pdf",
                NoContent}}

NextTypes ==
    \E r \in Requests :
        \/ \E text \in {NoContent, "hi"},
              files \in UNION {[1..n -> Uploads] : n \in 0..MaxFiles} :
              SendLoad(r, "u1", 1, text, files)
        \/ SendCheckBlock(r)
        \/ SendFlush(r)
        \/ ProcessAttachments(r)
        \/ SendCommit(r)
        \/ Refresh(r)
        \/ FanoutStep(r)

InitTypes ==
    /\ active_connections = RegisterAll(NumSockets, {2})
    /\ session = [w \in Sockets |-> IF w = 2 THEN Receiving ELSE NewSession]
    /\ inbox = [w \in Sockets |-> <<>>]
    /\ db = FixtureDb
    /\ req = [r \in Requests |-> IdleRequest]
    /\ handed = [u \in Users |-> <<>>]

SpecTypes == InitTypes /\ [][NextTypes]_vars

\* ------------------------------------------------ properties: message types
\* The content types above whose MIME type is image (a media type is
\* "type/subtype", and its names are case-insensitive).
ImageMimes == {"image/png", "IMAGE/PNG", "image/bmp"}

\* The content types of the attachment rows of message m.
AttachedTypes(m) == {a.file_type : a \in {x \in db.attachments : x.message_id = m}}

\* C29: a message of a user has the type image when it has attachments and
\* all of them have an image MIME type, the type file when it has attachments
\* and not all of them are images, and the type text when it has none.
C29_TypeFromAttachments ==
    \A m \in db.messages :
        m.sender_id \in Users =>
            m.type = IF AttachedTypes(m.id) = {} THEN "text"
                     ELSE IF AttachedTypes(m.id) \subseteq ImageMimes THEN "image"
                     ELSE "file"

\* -------------------------------------------- specification: failure kinds
\* u1 has blocked u2.  u2 and u3 send messages, with and without text, into
\* the conversations of the fixture and into one that does not exist.
InitFailures ==
    /\ active_connections = RegisterAll(NumSockets, Sockets)
    /\ session = [w \in Sockets |-> Receiving]
    /\ inbox = [w \in Sockets |-> <<>>]
    /\ db = [FixtureDb EXCEPT
                !.blocks = {[blocker_id |-> "u1", blocked_id |-> "u2"]}]
    /\ req = [r \in Requests |-> IdleRequest]
    /\ handed = [u \in Users |-> <<>>]

NextFailures ==
    \E r \in Requests :
        \/ \E u \in {"u2", "u3"}, c \in ChatIds, text \in Texts :
              SendLoad(r, u, c, text, <<>>)
        \/ \E u \in {"u2", "u3"} : GetCurrentUser(r, u)
        \/ \E c \in ChatIds, text \in Texts : PostMessage(r, c, text, <<>>)
        \/ SendCheckBlock(r)
        \/ SendFlush(r)
        \/ SendCommit(r)
        \/ Refresh(r)
        \/ FanoutStep(r)

SpecFailures == InitFailures /\ [][NextFailures]_vars

\* ------------------------------------------------ properties: failure kinds
\* The kind of a failure of send_message, by the check that raised it:
\* check_block_status (Blocked), the participant test of get_chat_details
\* (Forbidden), its lookup (NotFound), the empty check (InvalidArgument).
KindOf(res) ==
    CASE res = HttpError(403, "You are blocked by this user") -> "Blocked"
      [] res = HttpError(403, "Not a participant") -> "Forbidden"
      [] res = HttpError(404, "Chat not found") -> "NotFound"
      [] res = HttpError(400, "Message must have text or attachments")
            -> "InvalidArgument"
      [] OTHER -> "none"

\* C30: two failures of different kinds differ in what the response carries
\* besides the detail text, the status code of the HTTPException; so a
\* Blocked and a Forbidden rejection of send_message have different codes.
C30_KindsDistinguishable ==
    \A q \in Requests, r \in Requests :
        (/\ req[q].pc = "done" /\ req[r].pc = "done"
         /\ KindOf(req[q].result) # "none"
         /\ KindOf(req[r].result) # "none"
         /\ KindOf(req[q].result) # KindOf(req[r].result))
        => req[q].result.status # req[r].result.status

\* ------------------------------------------------ properties: oversized files
\* C31: a send_message with an attachment over the limit ends with 400 and
\* keeps nothing of the call: from the flush on, no step of such a call
\* adds a message row, an attachment row, a file under the upload directory
\* or an event, the call never gets to its commit, and it ends with 400.
C31_OversizeLeavesNothing ==
    [][\A r \in Requests :
          (/\ req[r].op = "send_message"
           /\ req[r].pc \in {"flush", "attach"}
           /\ req'[r] # req[r]
           /\ \E i \in 1..Len(req[r].files) : req[r].files[i].big)
          => /\ req'[r].pc \in {"attach", "done"}
             /\ req'[r].pc = "done" => req'[r].result.status = 400
             /\ db'.messages = db.messages
             /\ db'.attachments = db.attachments
             /\ db'.uploads = db.uploads
             /\ inbox' = inbox
             /\ handed' = handed]_vars

\* ------------------------------------------- specification: a stalled client
\* Every websocket is registered; the client of websocket 1 (of u1) has
\* stopped reading.  u1 and u2 send messages into the conversations of the
\* fixture.  The event loop runs every handler that can go on.
InitStall ==
    /\ active_connections = RegisterAll(NumSockets, Sockets)
    /\ session = [w \in Sockets |->
                     IF w = 1
                     THEN [pc |-> "receiving", it |-> NoIter, transition |-> TRUE,
                           open |-> TRUE, removed |-> FALSE,
                           stalled |-> TRUE]
                     ELSE Receiving]
    /\ inbox = [w \in Sockets |-> <<>>]
    /\ db = FixtureDb
    /\ req = [r \in Requests |-> IdleRequest]
    /\ handed = [u \in Users |-> <<>>]

NextStall ==
    \E r \in Requests :
        \/ \E u \in Pair, c \in {1, 2} : SendLoad(r, u, c, "hi", <<>>)
        \/ SendCheckBlock(r)
        \/ SendFlush(r)
        \/ SendCommit(r)
        \/ Refresh(r)
        \/ FanoutStep(r)

SpecStall ==
    /\ InitStall
    /\ [][NextStall]_vars
    /\ \A r \in Requests :
          /\ WF_vars(SendCheckBlock(r))
          /\ WF_vars(SendFlush(r))
          /\ WF_vars(SendCommit(r))
          /\ WF_vars(Refresh(r))
          /\ WF_vars(FanoutStep(r))

\* -------------------------------------------- properties: a stalled client
\* C32: a send_json that never returns on one handle does not keep the event
\* from the other handles: once a message is committed, every handle of its
\* participants whose client reads eventually has the event.
C32_StallDoesNotBlockOthers ==
    \A r \in Requests :
        [](req[r].pc = "fanout"
           => <>(\A w \in Sockets :
                    (UserOf(w) \in Targets(r) /\ ~Stalls(w)) => Got(w, r)))


\* ------------------------------------------- specification: dead handles
\* The registered websockets receive; a client of u1 may go away, or send a
\* binary frame that ends its endpoint without disconnect_async(), while u2
\* sends into the direct conversation with u1.  The server's own steps are taken
\* whenever they stay possible; what the clients do is not.
NextDead ==
    \/ \E r \in Requests :
          \/ SendLoad(r, "u2", 1, "hi", <<>>)
          \/ SendCheckBlock(r)
          \/ SendFlush(r)
          \/ SendCommit(r)
          \/ Refresh(r)
          \/ FanoutStep(r)
    \/ \E w \in {x \in Sockets : UserOf(x) = "u1"} :
          \/ ClientClose(w)
          \/ WsReceiveError(w)
          \/ WsDisconnect(w)
    \/ \E w \in Sockets : WsBroadcastStep(w)

SpecDead ==
    /\ InitChat
    /\ [][NextDead]_vars
    /\ \A r \in Requests :
          /\ WF_vars(SendCheckBlock(r))
          /\ WF_vars(SendFlush(r))
          /\ WF_vars(SendCommit(r))
          /\ WF_vars(Refresh(r))
          /\ WF_vars(FanoutStep(r))
    /\ \A w \in Sockets :
          /\ WF_vars(WsDisconnect(w))
          /\ WF_vars(WsBroadcastStep(w))

\* send_json raised on handle w during the delivery of a request: the request
\* went through its fan-out to the user of w while w was registered, and w
\* does not have its event.
SendRaisedOn(w) ==
    /\ Registered(w)
    /\ \E r \in Requests :
          Delivered(r) /\ UserOf(w) \in Targets(r) /\ ~Got(w, r)

\* C33: a handle whose send_json raised during a delivery is eventually
\* removed from active_connections, whether or not the receive loop of its
\* session observes a disconnect.
C33_DeadHandleRemoved ==
    \A w \in Sockets : [](SendRaisedOn(w) => <>(~Registered(w)))


\* ------------------------------------------- claims: fan-out under churn
\* C34: a fan-out in flight while other sessions connect or disconnect does
\* not raise to its caller: a broadcast_user_status that is between two of
\* its sends goes on to its next send or returns to connect() or
\* disconnect_async(); it never ends in the RuntimeError of the dict
\* iterator.
C34_FanoutSurvivesChurn ==
    [][\A w \in Sockets :
          session[w].pc \in {"connect_bcast", "disconnect_bcast"}
          => session'[w].pc \in {"connect_bcast", "disconnect_bcast",
                                 "receiving", "closed"}]_vars


\* ----------------------------------------------- claims: presence settles
\* The user_status_change events about user u that websocket w received, in
\* the order of their arrival.
StatusAbout(w, u) ==
    SelectSeq(inbox[w], LAMBDA e : e.type = "user_status_change" /\ e.userId = u)

\* No connect(), disconnect_async() or broadcast_user_status is in flight.
PresenceQuiet ==
    \A w \in Sockets :
        session[w].pc \notin {"accepting", "connect_bcast", "disconnect_bcast"}

\* C35: presence converges.  Once no connect, disconnect or broadcast is in
\* flight, for every user u and every live handle h of another user that
\* received a user_status_change about u, the last such event has isOnline
\* equal to whether u is in active_connections.
C35_PresenceConverges ==
    PresenceQuiet
    => \A u \in Users, h \in Sockets :
          (/\ UserOf(h) # u
           /\ session[h].pc = "receiving" /\ session[h].open
           /\ StatusAbout(h, u) # <<>>)
          => StatusAbout(h, u)[Len(StatusAbout(h, u))].isOnline
                = HasKey(active_connections, u)


\* ------------------------------------------- claims: membership and message
\* Request r committed its membership change: leave_group deleted the
\* caller's row, or add_members inserted the rows of the new members.
MembershipChanged(r) ==
    \/ /\ req[r].op = "leave_group"
       /\ req[r].pc \in {"message", "refresh", "remaining", "fanout"}
    \/ /\ req[r].op = "add_members"
       /\ req[r].pc \in {"reload", "message", "refresh", "fanout"}

\* The system message of request r is among the committed rows.
SystemMessageRecorded(r) ==
    \E m \in db.messages :
        /\ m.id = req[r].message
        /\ m.conversation_id = req[r].chat
        /\ m.type = "system"

\* C36: a membership change and its system message are persisted together.
\* In no committed state has leave_group removed the participant row, or
\* add_members added the member rows, while the system message of the
\* operation is not recorded.
C36_MembershipAtomic ==
    \A r \in Requests : MembershipChanged(r) => SystemMessageRecorded(r)


\* --------------------------------------------- claims: block against send
\* C37: under any interleaving of block_user and send_message, no Message row
\* from S is committed to conversation C once a Block whose blocked user is S
\* and whose blocker is another participant of C has been committed.
C37_NoMessageAfterBlock ==
    [][\A r \in Requests :
          (/\ req[r].op = "send_message"
           /\ req'[r] # req[r]
           /\ BlockedIn(req[r].chat, req[r].user))
          => db'.messages = db.messages]_vars


\* ------------------------------------------- claims: removed participants
\* User b was removed from group c by kick_member or leave_group before the
\* message row id was committed: b has no participant row, and the system
\* message of the removal, which is committed with the delete of the row
\* (kick_member) or after it (leave_group), has a smaller id.
RemovedBefore(b, c, id) ==
    /\ b \notin ParticipantIds(db, c)
    /\ \E k \in db.messages :
          /\ k.conversation_id = c
          /\ k.type = "system"
          /\ k.id < id
          /\ \/ k.content = b \o " has left the group"
             \/ \E a \in Users : k.content = a \o " removed " \o b

\* C38: once kick_member or leave_group has removed B from group C, the
\* handles of B receive no event of C that belongs to an operation committed
\* after the removal: no handle of B has the event of a send_message whose
\* row was committed after B was removed.
C38_RemovedGetsNothing ==
    \A r \in Requests, w \in Sockets :
        (/\ req[r].op = "send_message"
         /\ RemovedBefore(UserOf(w), req[r].chat, req[r].message))
        => ~Got(w, r)


\* ------------------------------------------------ claims: admin of a group
\* C39: every group conversation that has a participant has an admin among
\* its participants.
C39_GroupHasAdmin ==
    \A k \in db.conversations :
        (k.is_group /\ ParticipantIds(db, k.id) # {})
        => \E p \in db.participants :
              p.conversation_id = k.id /\ p.role = "admin"

====
